---- MODULE Spec2Model ----
(***************************************************************************)
(* Model of the dimension-resolution engine of Ligna:                      *)
(*   evaluateExpression, buildExpressionContext, getMaterialThickness and  *)
(*   calculateParts (src/src/services/chartaApi.ts, lines 1166-1511).      *)
(*                                                                         *)
(* Strings are TLA+ strings (TLC treats them as sequences of characters).  *)
(* JavaScript numbers are modelled as exact rationals [n, d] extended with *)
(* the IEEE values +0/-0, +Infinity, -Infinity and NaN; binary rounding of *)
(* doubles is not modelled.                                                *)
(***************************************************************************)
EXTENDS Integers, Sequences, FiniteSets, TLC

(***************************************************************************)
(* JavaScript numbers.                                                     *)
(*   finite, non-zero : d > 0, gcd(|n|, d) = 1                             *)
(*   +0 / -0          : n = 0, d = 1 / d = -1                              *)
(*   +Infinity        : n = 1, d = 0      -Infinity : n = -1, d = 0        *)
(*   NaN              : n = 0, d = 0                                       *)
(* Two further values, which are not numbers:                              *)
(*   NonNumber        : n = 2, d = 0  a RegExp object or a string          *)
(*   Unrepresentable  : n = 3, d = 0  a finite number the model cannot     *)
(*                      write as a rational (an irrational power)          *)
(***************************************************************************)
Abs(i) == IF i < 0 THEN -i ELSE i

RECURSIVE Gcd(_, _)
Gcd(a, b) == IF b = 0 THEN a ELSE Gcd(b, a % b)

NaN == [n |-> 0, d |-> 0]
PosInf == [n |-> 1, d |-> 0]
NegInf == [n |-> -1, d |-> 0]
NonNumber == [n |-> 2, d |-> 0]
Unrepresentable == [n |-> 3, d |-> 0]
PosZero == [n |-> 0, d |-> 1]
NegZero == [n |-> 0, d |-> -1]

\* The number n/d (d # 0), normalised; a zero quotient is +0.
Rat(n, d) ==
  IF n = 0 THEN PosZero
  ELSE LET g == Gcd(Abs(n), Abs(d))
           s == IF d < 0 THEN -1 ELSE 1
       IN  [n |-> s * (n \div g), d |-> s * (d \div g)]

Num(i) == Rat(i, 1)

IsNaN(x) == x.d = 0 /\ x.n = 0
IsInf(x) == x.d = 0 /\ x.n \in {1, -1}
IsNumber(x) == x.d # 0 \/ x.n \in {0, 1, -1}
IsFinite(x) == x.d # 0
IsZero(x) == x.d # 0 /\ x.n = 0
\* Sign of a number other than NaN: -1 or 1 (the sign of a zero is kept in d).
SignOf(x) ==
  IF x.d = 0 THEN x.n
  ELSE IF x.n = 0 THEN x.d
  ELSE IF x.n > 0 THEN 1 ELSE -1
\* Numerator and denominator of a finite number, the zeros as 0/1.
Nn(x) == x.n
Dd(x) == IF x.n = 0 THEN 1 ELSE x.d
SignedZero(s) == IF s < 0 THEN NegZero ELSE PosZero
SignedInf(s) == IF s < 0 THEN NegInf ELSE PosInf

\* ToNumber of an operand: a RegExp object or a string built from one is NaN.
ToNumber(x) == IF x = NonNumber THEN NaN ELSE x

Neg(x) ==
  IF x = Unrepresentable THEN x
  ELSE IF IsNaN(x) THEN NaN
  ELSE IF x.d = 0 THEN [n |-> -x.n, d |-> 0]
  ELSE IF x.n = 0 THEN [n |-> 0, d |-> -x.d]
  ELSE [n |-> -x.n, d |-> x.d]

Add(x, y) ==
  IF x = Unrepresentable \/ y = Unrepresentable THEN Unrepresentable
  ELSE IF IsNaN(x) \/ IsNaN(y) THEN NaN
  ELSE IF IsInf(x) /\ IsInf(y) THEN (IF x = y THEN x ELSE NaN)
  ELSE IF IsInf(x) THEN x
  ELSE IF IsInf(y) THEN y
  ELSE IF IsZero(x) /\ IsZero(y) THEN (IF x = NegZero /\ y = NegZero THEN NegZero ELSE PosZero)
  ELSE IF IsZero(x) THEN y
  ELSE IF IsZero(y) THEN x
  ELSE Rat(Nn(x) * Dd(y) + Nn(y) * Dd(x), Dd(x) * Dd(y))

Sub(x, y) == Add(x, Neg(y))

Mul(x, y) ==
  IF x = Unrepresentable \/ y = Unrepresentable THEN Unrepresentable
  ELSE IF IsNaN(x) \/ IsNaN(y) THEN NaN
  ELSE IF (IsInf(x) /\ IsZero(y)) \/ (IsZero(x) /\ IsInf(y)) THEN NaN
  ELSE IF IsInf(x) \/ IsInf(y) THEN SignedInf(SignOf(x) * SignOf(y))
  ELSE IF IsZero(x) \/ IsZero(y) THEN SignedZero(SignOf(x) * SignOf(y))
  ELSE Rat(Nn(x) * Nn(y), Dd(x) * Dd(y))

Div(x, y) ==
  IF x = Unrepresentable \/ y = Unrepresentable THEN Unrepresentable
  ELSE IF IsNaN(x) \/ IsNaN(y) THEN NaN
  ELSE IF (IsInf(x) /\ IsInf(y)) \/ (IsZero(x) /\ IsZero(y)) THEN NaN
  ELSE IF IsInf(x) \/ IsZero(y) THEN SignedInf(SignOf(x) * SignOf(y))
  ELSE IF IsInf(y) \/ IsZero(x) THEN SignedZero(SignOf(x) * SignOf(y))
  ELSE Rat(Nn(x) * Dd(y), Dd(x) * Nn(y))

RECURSIVE IntPow(_, _)
IntPow(b, e) == IF e = 0 THEN 1 ELSE b * IntPow(b, e - 1)

IsInteger(x) == x.d # 0 /\ Dd(x) = 1
IsOddInteger(x) == IsInteger(x) /\ Nn(x) % 2 = 1
\* -1, 0 or 1 as |x| is below, equal to or above 1 (x a number other than NaN).
AbsVsOne(x) ==
  IF IsInf(x) THEN 1
  ELSE IF Abs(Nn(x)) > Dd(x) THEN 1
  ELSE IF Abs(Nn(x)) = Dd(x) THEN 0 ELSE -1

\* Number::exponentiate (the ** operator).
Pow(x, y) ==
  IF x = Unrepresentable \/ y = Unrepresentable THEN Unrepresentable
  ELSE IF IsNaN(y) THEN NaN
  ELSE IF IsZero(y) THEN Num(1)
  ELSE IF IsNaN(x) THEN NaN
  ELSE IF IsInf(y) THEN
         (IF AbsVsOne(x) = 0 THEN NaN
          ELSE IF (AbsVsOne(x) > 0) = (SignOf(y) > 0) THEN PosInf ELSE PosZero)
  ELSE IF IsInf(x) \/ IsZero(x) THEN
         LET big == IsInf(x) = (SignOf(y) > 0)
             s == IF SignOf(x) < 0 /\ IsOddInteger(y) THEN -1 ELSE 1
         IN  IF big THEN SignedInf(s) ELSE SignedZero(s)
  ELSE IF IsInteger(y) THEN
         LET e == Abs(Nn(y))
             p == IntPow(Nn(x), e)
             q == IntPow(Dd(x), e)
         IN  IF Nn(y) > 0 THEN Rat(p, q) ELSE Rat(q, p)
  ELSE IF SignOf(x) < 0 THEN NaN
  ELSE IF x = Num(1) THEN Num(1)
  ELSE Unrepresentable

\* x <= 0 and x > 0 as JavaScript compares numbers (false for NaN).
LeqZero(x) == ~IsNaN(x) /\ (IsZero(x) \/ SignOf(x) < 0)
GtZero(x) == ~IsNaN(x) /\ ~IsZero(x) /\ SignOf(x) > 0

\* Math.round: the integer nearest to x, ties towards +Infinity.
MathRound(x) ==
  IF x.d = 0 THEN x
  ELSE IF x.n = 0 THEN x
  ELSE LET r == (2 * x.n + x.d) \div (2 * x.d)
       IN  IF r = 0 THEN SignedZero(SignOf(x)) ELSE Num(r)

\* Math.max(1, x)
MathMaxOne(x) ==
  IF IsNaN(x) THEN NaN
  ELSE IF x = PosInf THEN PosInf
  ELSE IF x = NegInf \/ IsZero(x) THEN Num(1)
  ELSE IF Nn(x) > Dd(x) THEN x ELSE Num(1)

\* Math.round(result * 100) / 100 (an integer is left as it is).
RoundTo2(x) ==
  IF x.d # 0 /\ Dd(x) = 1 THEN x ELSE Div(MathRound(Mul(x, Num(100))), Num(100))

(***************************************************************************)
(* Strings.                                                                *)
(***************************************************************************)
\* The character of s at position i (1-based), "" outside the string.
Ch(s, i) == IF i >= 1 /\ i <= Len(s) THEN SubSeq(s, i, i) ELSE ""
\* The two characters of s at positions i and i + 1.
Ch2(s, i) == IF i >= 1 /\ i < Len(s) THEN SubSeq(s, i, i + 1) ELSE ""

DigitChars == {"0", "1", "2", "3", "4", "5", "6", "7", "8", "9"}
UpperChars == {"A", "B", "C", "D", "E", "F", "G", "H", "I", "J", "K", "L", "M",
               "N", "O", "P", "Q", "R", "S", "T", "U", "V", "W", "X", "Y", "Z"}
\* The white space the model's inputs use (the code's \s and trim() know more).
WhiteSpace == {" "}

DigitVal(c) ==
  CASE c = "0" -> 0 [] c = "1" -> 1 [] c = "2" -> 2 [] c = "3" -> 3 [] c = "4" -> 4
    [] c = "5" -> 5 [] c = "6" -> 6 [] c = "7" -> 7 [] c = "8" -> 8 [] c = "9" -> 9

DigitChar(i) == Ch("0123456789", i + 1)

LowerChar(c) ==
  IF c \notin UpperChars THEN c
  ELSE CASE c = "A" -> "a" [] c = "B" -> "b" [] c = "C" -> "c" [] c = "D" -> "d"
         [] c = "E" -> "e" [] c = "F" -> "f" [] c = "G" -> "g" [] c = "H" -> "h"
         [] c = "I" -> "i" [] c = "J" -> "j" [] c = "K" -> "k" [] c = "L" -> "l"
         [] c = "M" -> "m" [] c = "N" -> "n" [] c = "O" -> "o" [] c = "P" -> "p"
         [] c = "Q" -> "q" [] c = "R" -> "r" [] c = "S" -> "s" [] c = "T" -> "t"
         [] c = "U" -> "u" [] c = "V" -> "v" [] c = "W" -> "w" [] c = "X" -> "x"
         [] c = "Y" -> "y" [] c = "Z" -> "z"

\* String.prototype.toLowerCase
RECURSIVE ToLowerCase(_)
ToLowerCase(s) ==
  IF s = "" THEN "" ELSE LowerChar(Ch(s, 1)) \o ToLowerCase(Tail(s))

RECURSIVE TrimStart(_)
TrimStart(s) ==
  IF s # "" /\ Ch(s, 1) \in WhiteSpace THEN TrimStart(Tail(s)) ELSE s

RECURSIVE TrimEnd(_)
TrimEnd(s) ==
  IF s # "" /\ Ch(s, Len(s)) \in WhiteSpace
  THEN TrimEnd(SubSeq(s, 1, Len(s) - 1)) ELSE s

\* String.prototype.trim
Trim(s) == TrimEnd(TrimStart(s))

RECURSIVE NatToString(_)
NatToString(i) ==
  IF i < 10 THEN DigitChar(i) ELSE NatToString(i \div 10) \o DigitChar(i % 10)

\* The digits of h hundredths after the decimal point, trailing zeros dropped.
FractionDigits(h) ==
  IF h % 10 = 0 THEN DigitChar(h \div 10)
  ELSE DigitChar(h \div 10) \o DigitChar(h % 10)

\* String(value) for the numbers a context holds: integers and decimals of
\* at most two places print in plain decimal notation; -0 prints as "0".
HasTwoPlaces(x) == x.d # 0 /\ 100 % Dd(x) = 0
NumberToString(x) ==
  IF IsNaN(x) THEN "NaN"
  ELSE IF x = PosInf THEN "Infinity"
  ELSE IF x = NegInf THEN "-Infinity"
  ELSE LET h == Abs(Nn(x)) * (100 \div Dd(x))
           body == IF h % 100 = 0 THEN NatToString(h \div 100)
                   ELSE NatToString(h \div 100) \o "." \o FractionDigits(h % 100)
       IN  IF Nn(x) < 0 THEN "-" \o body ELSE body

(***************************************************************************)
(* Regular expressions, as far as the code uses them.                      *)
(***************************************************************************)
RegExpQuantifiers == {"+", "*", "?"}

\* Whether s[i..] is a well-formed pattern: every group closed, every
\* quantifier after an atom.  depth: open groups; atom: whether a
\* quantifier may follow.  Covers patterns without \ [ ] { } | ^ $.
RECURSIVE PatternOk(_, _, _, _)
PatternOk(s, i, depth, atom) ==
  IF i > Len(s) THEN depth = 0
  ELSE LET c == Ch(s, i)
       IN  IF c = "(" THEN PatternOk(s, i + 1, depth + 1, FALSE)
           ELSE IF c = ")" THEN depth > 0 /\ PatternOk(s, i + 1, depth - 1, TRUE)
           ELSE IF c \in RegExpQuantifiers THEN atom /\ PatternOk(s, i + 1, depth, FALSE)
           ELSE PatternOk(s, i + 1, depth, TRUE)

\* new RegExp(key, 'gi') throws a SyntaxError.
RegExpThrows(key) == ~PatternOk(key, 1, 0, FALSE)

\* Whether the pattern key (no metacharacters) matches s at position i,
\* case-insensitively; lowKey is key lower-cased.
RECURSIVE MatchesAt(_, _, _, _)
MatchesAt(s, i, lowKey, j) ==
  IF j > Len(lowKey) THEN TRUE
  ELSE IF i + j - 1 > Len(s) THEN FALSE
  ELSE LowerChar(Ch(s, i + j - 1)) = Ch(lowKey, j) /\ MatchesAt(s, i, lowKey, j + 1)

\* The first position from i on where lowKey matches in s, Len(s) + 1 if
\* there is none.
RECURSIVE NextMatch(_, _, _)
NextMatch(s, i, lowKey) ==
  IF i > Len(s) THEN Len(s) + 1
  ELSE IF MatchesAt(s, i, lowKey, 1) THEN i
  ELSE NextMatch(s, i + 1, lowKey)

\* s.replace(new RegExp(key, 'gi'), rep) from position i on: every match,
\* left to right, non-overlapping; an empty pattern matches before every
\* character and at the end.
RECURSIVE ReplaceFrom(_, _, _, _)
ReplaceFrom(s, i, lowKey, rep) ==
  IF i > Len(s) THEN (IF lowKey = "" THEN rep ELSE "")
  ELSE IF lowKey = "" THEN rep \o Ch(s, i) \o ReplaceFrom(s, i + 1, lowKey, rep)
  ELSE LET m == NextMatch(s, i, lowKey)
       IN  IF m > Len(s) THEN SubSeq(s, i, Len(s))
           ELSE SubSeq(s, i, m - 1) \o rep \o ReplaceFrom(s, m + Len(lowKey), lowKey, rep)

ReplaceAll(s, key, rep) == ReplaceFrom(s, 1, ToLowerCase(key), rep)

(***************************************************************************)
(* new Function(`"use strict"; return (${processedExpr})`)()               *)
(*                                                                         *)
(* What a JavaScript engine does with the text "(" processedExpr ")" when  *)
(* processedExpr has passed safePattern, so holds only digits, blanks and  *)
(* + - * / ( ) . : the text is one strict-mode Expression (if it is not, a *)
(* SyntaxError is thrown), whose tokens are numeric literals, the          *)
(* punctuators + - * / ** ++ -- ( ) . , comments and regular expression    *)
(* literals.  A parse result is [ok, v, i]: success, value, next position. *)
(***************************************************************************)
Fail == [ok |-> FALSE, v |-> NaN, i |-> 0]
Ok(v, i) == [ok |-> TRUE, v |-> v, i |-> i]

\* The position after the "*/" that closes a comment opened before j, or 0.
RECURSIVE CommentEnd(_, _)
CommentEnd(s, j) ==
  IF j >= Len(s) THEN 0
  ELSE IF Ch2(s, j) = "*/" THEN j + 2 ELSE CommentEnd(s, j + 1)

\* The position of the next token at or after i: white space and comments
\* skipped.  A // comment runs to the end of the text (the inputs hold no
\* line terminator); an unclosed /* comment is a SyntaxError, given as the
\* position Len(s) + 2, where no token is.
RECURSIVE SkipTrivia(_, _)
SkipTrivia(s, i) ==
  IF i > Len(s) THEN i
  ELSE IF Ch(s, i) \in WhiteSpace THEN SkipTrivia(s, i + 1)
  ELSE IF Ch2(s, i) = "//" THEN Len(s) + 1
  ELSE IF Ch2(s, i) = "/*" THEN
         LET e == CommentEnd(s, i + 2)
         IN  IF e = 0 THEN Len(s) + 2 ELSE SkipTrivia(s, e)
  ELSE i

\* The first position at or after i that holds no digit.
RECURSIVE DigitsEnd(_, _)
DigitsEnd(s, i) == IF Ch(s, i) \in DigitChars THEN DigitsEnd(s, i + 1) ELSE i

\* The value of the digits s[i..j-1] following acc.
RECURSIVE DigitsValue(_, _, _, _)
DigitsValue(s, i, j, acc) ==
  IF i >= j THEN acc ELSE DigitsValue(s, i + 1, j, 10 * acc + DigitVal(Ch(s, i)))

\* NumericLiteral at i: digits [. digits] or . digits.  In strict mode a
\* literal of several digits that starts with 0 (legacy octal, or 08, 09)
\* is a SyntaxError.
ParseNumber(s, i) ==
  LET e1 == DigitsEnd(s, i)
      hasDot == Ch(s, e1) = "."
      e2 == IF hasDot THEN DigitsEnd(s, e1 + 1) ELSE e1
      int == DigitsValue(s, i, e1, 0)
      fracLen == IF hasDot THEN e2 - (e1 + 1) ELSE 0
      frac == IF hasDot THEN DigitsValue(s, e1 + 1, e2, 0) ELSE 0
      scale == IntPow(10, fracLen)
  IN  IF e1 = i /\ (~hasDot \/ fracLen = 0) THEN Fail
      ELSE IF e1 - i > 1 /\ Ch(s, i) = "0" THEN Fail
      ELSE Ok(Rat(int * scale + frac, scale), e2)

\* The position of the "/" that closes a regular expression literal whose
\* body starts at j, or 0.
RECURSIVE RegExpEnd(_, _)
RegExpEnd(s, j) ==
  IF j > Len(s) THEN 0 ELSE IF Ch(s, j) = "/" THEN j ELSE RegExpEnd(s, j + 1)

\* RegularExpressionLiteral at i (a "/" where an operand is expected): the
\* body must be a well-formed pattern and no flag may follow (a digit is an
\* IdentifierPart, so it would be read as an invalid flag).
ParseRegExp(s, i) ==
  LET k == RegExpEnd(s, i + 1)
  IN  IF k = 0 THEN Fail
      ELSE IF ~PatternOk(SubSeq(s, i + 1, k - 1), 1, 0, FALSE) THEN Fail
      ELSE IF Ch(s, k + 1) \in DigitChars THEN Fail
      ELSE Ok(NonNumber, k + 1)

\* The binary operators on values that may be RegExp objects or strings.
JsAdd(x, y) == IF x = NonNumber \/ y = NonNumber THEN NonNumber ELSE Add(x, y)
JsSub(x, y) == Sub(ToNumber(x), ToNumber(y))
JsMul(x, y) == Mul(ToNumber(x), ToNumber(y))
JsDiv(x, y) == Div(ToNumber(x), ToNumber(y))
JsPow(x, y) == Pow(ToNumber(x), ToNumber(y))
JsNeg(x) == Neg(ToNumber(x))
JsPlus(x) == ToNumber(x)

\* The productions of the expression grammar, each a case of Parse: the
\* result of reading the production in s from position i on (left is the
\* value read so far, for the rests of the left-associative productions).
RECURSIVE Parse(_, _, _, _)
ParsePrimary(s, i) == Parse("PrimaryExpression", s, i, NaN)
ParseUnary(s, i) == Parse("UnaryExpression", s, i, NaN)
ParseExponent(s, i) == Parse("ExponentiationExpression", s, i, NaN)
MultiplicativeRest(s, left, i) == Parse("MultiplicativeRest", s, i, left)
ParseMultiplicative(s, i) == Parse("MultiplicativeExpression", s, i, NaN)
AdditiveRest(s, left, i) == Parse("AdditiveRest", s, i, left)
ParseAdditive(s, i) == Parse("AdditiveExpression", s, i, NaN)

Parse(production, s, i0, left) ==
  LET i == SkipTrivia(s, i0)
      c == Ch(s, i)
  IN  CASE production = "PrimaryExpression" ->
             \* A literal, a parenthesised Expression or a RegExp.
             IF c \in DigitChars \/ c = "." THEN ParseNumber(s, i)
             ELSE IF c = "/" THEN ParseRegExp(s, i)
             ELSE IF c = "(" THEN
                    LET e == ParseAdditive(s, i + 1)
                        j == IF e.ok THEN SkipTrivia(s, e.i) ELSE 0
                    IN  IF e.ok /\ Ch(s, j) = ")" THEN Ok(e.v, j + 1) ELSE Fail
             ELSE Fail
        [] production = "UnaryExpression" ->
             \* + or - before a UnaryExpression; "++" and "--" are the update
             \* operators, an early error on any operand these texts can hold.
             IF c \in {"+", "-"} THEN
               IF Ch(s, i + 1) = c THEN Fail
               ELSE LET r == ParseUnary(s, i + 1)
                    IN  IF ~r.ok THEN Fail
                        ELSE Ok(IF c = "-" THEN JsNeg(r.v) ELSE JsPlus(r.v), r.i)
             ELSE ParsePrimary(s, i)
        [] production = "ExponentiationExpression" ->
             \* UnaryExpression, or operand ** Exponentiation (right-
             \* associative); a unary operator on the left of ** is a
             \* SyntaxError.
             LET u == ParseUnary(s, i)
                 j == IF u.ok THEN SkipTrivia(s, u.i) ELSE 0
             IN  IF ~u.ok THEN Fail
                 ELSE IF Ch2(s, j) = "**" THEN
                        IF c \in {"+", "-"} THEN Fail
                        ELSE LET r == ParseExponent(s, j + 2)
                             IN  IF r.ok THEN Ok(JsPow(u.v, r.v), r.i) ELSE Fail
                 ELSE u
        [] production = "MultiplicativeRest" ->
             \* Left-associative.
             IF c \in {"*", "/"} THEN
               LET r == ParseExponent(s, i + 1)
               IN  IF ~r.ok THEN Fail
                   ELSE MultiplicativeRest(s, IF c = "*" THEN JsMul(left, r.v)
                                              ELSE JsDiv(left, r.v), r.i)
             ELSE Ok(left, i)
        [] production = "MultiplicativeExpression" ->
             LET l == ParseExponent(s, i0)
             IN  IF l.ok THEN MultiplicativeRest(s, l.v, l.i) ELSE Fail
        [] production = "AdditiveRest" ->
             \* Left-associative.
             IF c \in {"+", "-"} THEN
               IF Ch(s, i + 1) = c THEN Fail
               ELSE LET r == ParseMultiplicative(s, i + 1)
                    IN  IF ~r.ok THEN Fail
                        ELSE AdditiveRest(s, IF c = "+" THEN JsAdd(left, r.v)
                                             ELSE JsSub(left, r.v), r.i)
             ELSE Ok(left, i)
        [] production = "AdditiveExpression" ->
             LET l == ParseMultiplicative(s, i0)
             IN  IF l.ok THEN AdditiveRest(s, l.v, l.i) ELSE Fail

\* The call of the compiled function: [threw, v].  threw: a SyntaxError at
\* compilation or a TypeError at the call of a non-function, such as (1)(2).
RunFunction(processedExpr) ==
  LET s == "(" \o processedExpr \o ")"
      r == ParseAdditive(s, 1)
      j == IF r.ok THEN SkipTrivia(s, r.i) ELSE 0
  IN  IF r.ok /\ j = Len(s) + 1 THEN [threw |-> FALSE, v |-> r.v]
      ELSE [threw |-> TRUE, v |-> NaN]

(***************************************************************************)
(* evaluateExpression (chartaApi.ts 1166-1205), for a string expression.   *)
(* An ExpressionContext is the sequence of its entries [k, v] in the       *)
(* object's key order (insertion order).  The patterns the code builds     *)
(* from the keys are matched literally: the inputs hold no key with a      *)
(* metacharacter other than keys that new RegExp rejects.                  *)
(***************************************************************************)
RECURSIVE MaxKeyLength(_)
MaxKeyLength(context) ==
  IF context = <<>> THEN 0
  ELSE LET m == MaxKeyLength(Tail(context))
           l == Len(Head(context).k)
       IN  IF l > m THEN l ELSE m

\* Object.keys(context).sort((a, b) => b.length - a.length): longest first,
\* keys of one length in key order (the sort is stable).
RECURSIVE SortFromLength(_, _)
SortFromLength(context, l) ==
  IF l < 0 THEN <<>>
  ELSE SelectSeq(context, LAMBDA e : Len(e.k) = l) \o SortFromLength(context, l - 1)

\* Mutant of SortedKeys: the keys are left in key order.
SortedKeys_Unsorted(context) == context

SortedKeys(context) == SortFromLength(context, MaxKeyLength(context))

\* The for loop over the first j of sortedKeys: [threw, s], s being
\* processedExpr after them (after those before the throwing one, if any).
RECURSIVE SubstituteKeys(_, _, _)
SubstituteKeys(processedExpr, sorted, j) ==
  IF j = 0 THEN [threw |-> FALSE, s |-> processedExpr]
  ELSE LET before == SubstituteKeys(processedExpr, sorted, j - 1)
       IN  IF before.threw THEN before
           ELSE IF RegExpThrows(sorted[j].k) THEN [threw |-> TRUE, s |-> before.s]
           ELSE [threw |-> FALSE,
                 s |-> ReplaceAll(before.s, sorted[j].k, NumberToString(sorted[j].v))]

Substitute(expression, context) ==
  LET sorted == SortedKeys(context)
  IN  SubstituteKeys(Trim(ToLowerCase(expression)), sorted, Len(sorted))

SafeChars == DigitChars \cup WhiteSpace \cup {"+", "-", "*", "/", "(", ")", "."}

\* safePattern.test(processedExpr), safePattern = /^[\d\s+\-*/().]+$/
SafePatternTest(s) == s # "" /\ \A i \in 1..Len(s) : Ch(s, i) \in SafeChars

\* The call's outcome: threw (an exception leaves evaluateExpression), the
\* value returned otherwise, the warning logged, and processedExpr as it
\* stood when the call ended.
Outcome(threw, v, warn, processedExpr) ==
  [threw |-> threw, v |-> v, warn |-> warn, processedExpr |-> processedExpr]

\* The try block (lines 1197-1204), run being the call of the function
\* compiled from processedExpr.
TryResult(processedExpr, run) ==
  IF run.threw THEN Outcome(FALSE, PosZero, "failed", processedExpr)
  ELSE IF run.v = Unrepresentable THEN Outcome(FALSE, Unrepresentable, "none", processedExpr)
  ELSE IF IsNumber(run.v) /\ ~IsNaN(run.v)
    THEN Outcome(FALSE, RoundTo2(run.v), "none", processedExpr)
  ELSE Outcome(FALSE, PosZero, "none", processedExpr)

\* The code after the substitution loop (lines 1190-1204), sub being the
\* loop's outcome.
AfterSubstitution(sub) ==
  IF sub.threw THEN Outcome(TRUE, NaN, "none", sub.s)
  ELSE IF ~SafePatternTest(sub.s) THEN Outcome(FALSE, PosZero, "unsafe", sub.s)
  ELSE TryResult(sub.s, RunFunction(sub.s))

evaluateExpression(expression, context) ==
  AfterSubstitution(Substitute(expression, context))

(***************************************************************************)
(* Objects.  An object whose keys matter (an ExpressionContext, a          *)
(* pattern's variables, variableOverrides) is the sequence of its entries  *)
(* [k, v] in key order.  An absent number is Undefined; an absent array is *)
(* NoArray; an absent string (a rule's materialId) is "".                  *)
(***************************************************************************)
Entry(k, v) == [k |-> k, v |-> v]
Undefined == [n |-> 4, d |-> 0]
NoArray == [defined |-> FALSE, items |-> <<>>]
Array(items) == [defined |-> TRUE, items |-> items]

\* a ?? b
Coalesce(a, b) == IF a = Undefined THEN b ELSE a
\* a || b on numbers: b when a is undefined, 0 or NaN.
OrElse(a, b) == IF a = Undefined \/ IsZero(a) \/ IsNaN(a) THEN b ELSE a

HasKey(obj, k) == \E i \in 1..Len(obj) : obj[i].k = k

\* obj[k] = v: an existing key keeps its place, a new key goes last.
SetKey(obj, k, v) ==
  IF HasKey(obj, k)
  THEN [i \in 1..Len(obj) |-> IF obj[i].k = k THEN Entry(k, v) ELSE obj[i]]
  ELSE Append(obj, Entry(k, v))

\* { ...obj, ...more }
\* Mutant of Spread: a key obj already has keeps the value obj gives it.
Spread_KeepExisting(obj, more) == obj \o SelectSeq(more, LAMBDA e : ~HasKey(obj, e.k))

RECURSIVE Spread(_, _)
Spread(obj, more) ==
  IF more = <<>> THEN obj
  ELSE Spread(SetKey(obj, Head(more).k, Head(more).v), Tail(more))

\* obj[name]
ContextValue(ctx, name) ==
  LET hits == SelectSeq(ctx, LAMBDA e : e.k = name) IN hits[Len(hits)].v

\* id.replace(/-/g, '_')
IdToName(id) == ReplaceAll(id, "-", "_")

(***************************************************************************)
(* buildExpressionContext (chartaApi.ts 1214-1373).                        *)
(* A ruleSet that is not given is NoRuleSet.                               *)
(***************************************************************************)
NoRuleSet ==
  [id |-> "none",
   construction |-> [sideConstruction |-> "", backPanelMethod |-> ""],
   offsets |-> [drawerFrontGap |-> Undefined, doorGap |-> Undefined,
                shelfInset |-> Undefined, drawerSlideOffset |-> Undefined,
                backPanelThickness |-> Undefined, backGrooveDepth |-> Undefined]]

\* zones.filter((z) => types.includes(z.type)).length
CountZones(zones, types) == Len(SelectSeq(zones, LAMBDA z : z.type \in types))

RECURSIVE SumOverColumns(_, _)
SumOverColumns(columns, types) ==
  IF columns = <<>> THEN 0
  ELSE CountZones(Head(columns).zones, types) + SumOverColumns(Tail(columns), types)

\* The count of the zones of the given types: over the columns when the
\* pattern has columns, over the flat zones otherwise (lines 1229-1247).
ZoneCount(pattern, types) ==
  IF Len(pattern.columns) > 0 THEN SumOverColumns(pattern.columns, types)
  ELSE CountZones(pattern.zones, types)

\* The column width variables added from column index on (lines 1350-1363).
\* Mutant of AddColumnWidths: only the index-keyed names are added.
AddColumnWidths_IndexOnly(ctx, pattern, internalWidth, index) ==
  LET n == Len(pattern.columns)
      proportion(i) ==
        IF pattern.columnProportions.defined /\ i <= Len(pattern.columnProportions.items)
        THEN OrElse(pattern.columnProportions.items[i], Rat(1, n)) ELSE Rat(1, n)
      Added[i \in 0..n] ==
        IF i = 0 THEN ctx
        ELSE SetKey(Added[i - 1], "column_" \o NatToString(i - 1) \o "_width",
                    MathRound(Mul(internalWidth, proportion(i))))
  IN  Added[n]

RECURSIVE AddColumnWidths(_, _, _, _)
AddColumnWidths(ctx, pattern, internalWidth, index) ==
  IF index >= Len(pattern.columns) THEN ctx
  ELSE LET n == Len(pattern.columns)
           equal == Rat(1, n)
           given == IF ~pattern.columnProportions.defined THEN equal
                    ELSE IF index + 1 <= Len(pattern.columnProportions.items)
                      THEN pattern.columnProportions.items[index + 1]
                    ELSE Undefined
           proportion == OrElse(given, equal)
           colWidth == MathRound(Mul(internalWidth, proportion))
           byIndex == SetKey(ctx, "column_" \o NatToString(index) \o "_width", colWidth)
           byId == SetKey(byIndex, IdToName(pattern.columns[index + 1].id) \o "_width", colWidth)
       IN  AddColumnWidths(byId, pattern, internalWidth, index + 1)

\* The switch on sideConstruction (lines 1264-1287): sideHeight, bottomWidth
\* and topWidth.
\* Mutant of SideConstruction: the sides are full height and the bottom
\* fits between them in every construction.
SideConstruction_SidesOnBottom(sideConstruction, height, width, materialThickness) ==
  [ sideHeight |-> height,
    bottomWidth |-> Sub(width, Mul(Num(2), materialThickness)),
    topWidth |-> Sub(width, Mul(Num(2), materialThickness)) ]

SideConstruction(sideConstruction, height, width, materialThickness) ==
  CASE sideConstruction = "bottom-between-sides" ->
         [ sideHeight |-> Sub(height, materialThickness),
           bottomWidth |-> width,
           topWidth |-> Sub(width, Mul(Num(2), materialThickness)) ]
    [] sideConstruction = "all-between" ->
         [ sideHeight |-> Sub(height, Mul(Num(2), materialThickness)),
           bottomWidth |-> Sub(width, Mul(Num(2), materialThickness)),
           topWidth |-> Sub(width, Mul(Num(2), materialThickness)) ]
    [] OTHER ->
         [ sideHeight |-> height,
           bottomWidth |-> Sub(width, Mul(Num(2), materialThickness)),
           topWidth |-> Sub(width, Mul(Num(2), materialThickness)) ]

\* backWidth and backHeight (lines 1290-1295), extent being the width or
\* the height.
\* Mutant of BackExtent: an inset back panel is as large as an overlay one.
BackExtent_Overlay(backPanelMethod, extent, materialThickness, backPanelGrooveDepth) ==
  Sub(extent, Mul(Num(2), materialThickness))

BackExtent(backPanelMethod, extent, materialThickness, backPanelGrooveDepth) ==
  IF backPanelMethod = "overlay"
  THEN Sub(extent, Mul(Num(2), materialThickness))
  ELSE Sub(Sub(extent, Mul(Num(2), materialThickness)),
           Mul(Num(2), backPanelGrooveDepth))

buildExpressionContext(dimensions, settings, pattern, ruleSet) ==
  LET height == dimensions.height
      width == dimensions.width
      depth == dimensions.depth
      backPanelGrooveDepth == settings.backPanelGrooveDepth
      materialThickness == Coalesce(pattern.materials.carcass, settings.materialThickness)
      backPanelThickness == Coalesce(pattern.materials.back, settings.backPanelThickness)
      frontThickness == Coalesce(pattern.materials.front, materialThickness)
      shelfThickness == Coalesce(pattern.materials.shelf, materialThickness)
      given == ruleSet.id # "none"
      sideConstruction ==
        IF given /\ ruleSet.construction.sideConstruction # ""
        THEN ruleSet.construction.sideConstruction ELSE "sides-on-bottom"
      backPanelMethod ==
        IF given /\ ruleSet.construction.backPanelMethod # ""
        THEN ruleSet.construction.backPanelMethod ELSE "overlay"
      twoT == Mul(Num(2), materialThickness)
      sides == SideConstruction(sideConstruction, height, width, materialThickness)
      backWidth == BackExtent(backPanelMethod, width, materialThickness, backPanelGrooveDepth)
      backHeight == BackExtent(backPanelMethod, height, materialThickness, backPanelGrooveDepth)
      drawerFrontGap == OrElse(ruleSet.offsets.drawerFrontGap, Num(3))
      doorGap == OrElse(ruleSet.offsets.doorGap, Num(3))
      shelfInset == OrElse(ruleSet.offsets.shelfInset, Num(20))
      drawerSlideOffset == OrElse(ruleSet.offsets.drawerSlideOffset, Rat(25, 2))
      base ==
        << Entry("total_height", height),
           Entry("total_width", width),
           Entry("total_depth", depth),
           Entry("material_thickness", materialThickness),
           Entry("thickness", materialThickness),
           Entry("carcass_thickness", materialThickness),
           Entry("front_thickness", frontThickness),
           Entry("shelf_thickness", shelfThickness),
           Entry("back_thickness", OrElse(ruleSet.offsets.backPanelThickness, backPanelThickness)),
           Entry("back_groove", OrElse(ruleSet.offsets.backGrooveDepth, backPanelGrooveDepth)),
           Entry("edge_banding", settings.defaultEdgeBanding),
           Entry("side_height", sides.sideHeight),
           Entry("bottom_width", sides.bottomWidth),
           Entry("top_width", sides.topWidth),
           Entry("back_width", backWidth),
           Entry("back_height", backHeight),
           Entry("internal_width", Sub(width, twoT)),
           Entry("internal_height", Sub(height, twoT)),
           Entry("internal_depth", Sub(depth, backPanelGrooveDepth)),
           Entry("drawer_front_gap", drawerFrontGap),
           Entry("door_gap", doorGap),
           Entry("shelf_inset", shelfInset),
           Entry("drawer_slide_offset", drawerSlideOffset),
           Entry("drawer_count", Num(ZoneCount(pattern, {"drawer"}))),
           Entry("door_count", Num(ZoneCount(pattern, {"door"}))),
           Entry("shelf_count", Num(ZoneCount(pattern, {"shelf", "fixed-shelf"}))),
           Entry("remaining_height", Sub(height, twoT)),
           Entry("column_count", Num(IF Len(pattern.columns) = 0 THEN 1
                                     ELSE Len(pattern.columns))) >>
      withColumns == AddColumnWidths(base, pattern, Sub(width, twoT), 0)
  IN  Spread(withColumns, pattern.variables)

(***************************************************************************)
(* getMaterialThickness (chartaApi.ts 1387-1395).                          *)
(***************************************************************************)
\* Mutant of getMaterialThickness: of the materials with the id, the last
\* one of the library is taken.
getMaterialThickness_Last(materialId, materials, fallbackThickness) ==
  IF materialId = "" THEN fallbackThickness
  ELSE LET found == SelectSeq(materials, LAMBDA m : m.id = materialId)
       IN  IF found = <<>> THEN fallbackThickness
           ELSE Coalesce(found[Len(found)].thickness, fallbackThickness)

getMaterialThickness(materialId, materials, fallbackThickness) ==
  IF materialId = "" THEN fallbackThickness
  ELSE LET found == SelectSeq(materials, LAMBDA m : m.id = materialId)
       IN  IF found = <<>> THEN fallbackThickness
           ELSE Coalesce(found[1].thickness, fallbackThickness)

(***************************************************************************)
(* calculateParts (chartaApi.ts 1406-1511).                                *)
(***************************************************************************)
\* The zone height variables of one column's zones from zone zoneIdx on
\* (lines 1428-1436).
RECURSIVE AddColumnZoneHeights(_, _, _, _, _)
AddColumnZoneHeights(ctx, column, colIdx, internalHeight, zoneIdx) ==
  IF zoneIdx >= Len(column.zones) THEN ctx
  ELSE LET zoneHeight == MathRound(Mul(internalHeight, Rat(1, Len(column.zones))))
           byIndex == SetKey(ctx, "col_" \o NatToString(colIdx) \o "_zone_"
                                    \o NatToString(zoneIdx) \o "_height", zoneHeight)
           byId == SetKey(byIndex, IdToName(column.zones[zoneIdx + 1].id) \o "_height",
                          zoneHeight)
       IN  AddColumnZoneHeights(byId, column, colIdx, internalHeight, zoneIdx + 1)

RECURSIVE AddColumnsZoneHeights(_, _, _, _)
AddColumnsZoneHeights(ctx, columns, internalHeight, colIdx) ==
  IF colIdx >= Len(columns) THEN ctx
  ELSE AddColumnsZoneHeights(
         AddColumnZoneHeights(ctx, columns[colIdx + 1], colIdx, internalHeight, 0),
         columns, internalHeight, colIdx + 1)

\* The zone height variables of the flat zones from zone index on
\* (lines 1439-1452).
RECURSIVE AddZoneHeights(_, _, _, _, _)
AddZoneHeights(ctx, zones, proportions, internalHeight, index) ==
  IF index >= Len(zones) THEN ctx
  ELSE LET zoneHeight == MathRound(Mul(internalHeight, proportions[index + 1]))
           byIndex == SetKey(ctx, "zone_" \o NatToString(index) \o "_height", zoneHeight)
           byId == SetKey(byIndex, IdToName(zones[index + 1].id) \o "_height", zoneHeight)
       IN  AddZoneHeights(byId, zones, proportions, internalHeight, index + 1)

\* The context the rules are evaluated in (lines 1415-1453).
PrepareContext(a) ==
  LET built == buildExpressionContext(a.dimensions, a.globalSettings, a.pattern, a.ruleSet)
      overridden == Spread(built, a.variableOverrides)
      internalHeight ==
        Sub(a.dimensions.height, Mul(Num(2), a.globalSettings.materialThickness))
      zones == a.pattern.zones
      proportions ==
        IF a.zoneProportions.defined /\ Len(a.zoneProportions.items) = Len(zones)
        THEN a.zoneProportions.items
        ELSE [i \in 1..Len(zones) |-> Rat(1, Len(zones))]
  IN  IF Len(a.pattern.columns) > 0
      THEN AddColumnsZoneHeights(overridden, a.pattern.columns, internalHeight, 0)
      ELSE AddZoneHeights(overridden, zones, proportions, internalHeight, 0)

\* rule.edgeBanding as the label of a part (lines 1487-1496); "" stands for
\* undefined.
EdgeBandingLabel(eb) ==
  LET l1 == IF eb.length1 THEN <<"L1">> ELSE <<>>
      l2 == IF eb.length2 THEN <<"L2">> ELSE <<>>
      w1 == IF eb.width1 THEN <<"W1">> ELSE <<>>
      w2 == IF eb.width2 THEN <<"W2">> ELSE <<>>
      edges == l1 \o l2 \o w1 \o w2
      Join[i \in 0..Len(edges)] ==
        IF i = 0 THEN "" ELSE IF i = 1 THEN edges[1] ELSE Join[i - 1] \o ", " \o edges[i]
  IN  Join[Len(edges)]

\* The end of the loop body (lines 1481-1507) for a rule whose formulas
\* evaluated to the outcomes l, w and q: whether an evaluation threw,
\* whether the rule is skipped, and the part it pushes otherwise.
RuleResult(rule, partThickness, l, w, q) ==
  [ rule |-> rule,
    partThickness |-> partThickness,
    threw |-> l.threw \/ w.threw \/ q.threw,
    length |-> l.v, width |-> w.v, quantityValue |-> q.v,
    skip |-> ~(l.threw \/ w.threw \/ q.threw) /\ (LeqZero(l.v) \/ LeqZero(w.v)),
    part |-> [ partName |-> rule.partName,
               length |-> MathRound(l.v),
               width |-> MathRound(w.v),
               quantity |-> MathMaxOne(MathRound(q.v)),
               materialId |-> rule.materialId,
               material |-> rule.material,
               grain |-> rule.grain,
               edgeBanding |-> EdgeBandingLabel(rule.edgeBanding) ] ]

\* The evaluations of a rule's formulas in its ruleContext (lines 1477-1479).
RuleEvaluated(rule, partThickness, ruleContext) ==
  RuleResult(rule, partThickness,
             evaluateExpression(rule.lengthExpression, ruleContext),
             evaluateExpression(rule.widthExpression, ruleContext),
             evaluateExpression(rule.quantityExpression, ruleContext))

\* ruleContext = { ...context, part_thickness: partThickness } (lines 1472-1475)
RuleContext(ctx, partThickness) == SetKey(ctx, "part_thickness", partThickness)

\* The shared context after ruleContext was made for a rule: the spread of
\* lines 1472-1475 makes a new object and leaves context as it is.
\* Mutant of SharedContext: part_thickness is assigned into the shared
\* context.
SharedContext_Assigned(ctx, partThickness) == SetKey(ctx, "part_thickness", partThickness)

SharedContext(ctx, partThickness) == ctx

\* The thickness of a rule's part (lines 1464-1469).
PartThickness(rule, ctx, materials) ==
  getMaterialThickness(rule.materialId, materials, ContextValue(ctx, "material_thickness"))

\* The body of the for loop for one rule (lines 1462-1507).
RuleOutcome(rule, ctx, materials) ==
  RuleEvaluated(rule, PartThickness(rule, ctx, materials),
                RuleContext(ctx, PartThickness(rule, ctx, materials)))

\* Mutant of PartsAfterRule: a skipped rule ends the list built so far.
PartsAfterRule_SkipClears(partsSoFar, outcome) ==
  IF outcome.skip THEN <<>> ELSE Append(partsSoFar, outcome.part)

\* parts after the loop body ran for a rule: continue, or parts.push(...).
PartsAfterRule(partsSoFar, outcome) ==
  IF outcome.skip THEN partsSoFar ELSE Append(partsSoFar, outcome.part)

(***************************************************************************)
(* consolidateParts (chartaApi.ts 1637-1655).  consolidated is the Map, in *)
(* insertion order, as a sequence of entries [k, v].                       *)
(***************************************************************************)
\* `${part.partName}|${part.length}|${part.width}|${part.material || 'main'}`
ConsolidationKey(part) ==
  part.partName \o "|" \o NumberToString(part.length) \o "|" \o NumberToString(part.width)
    \o "|" \o (IF part.material = "" THEN "main" ELSE part.material)

\* The for loop from part i on, and Array.from(consolidated.values()).
RECURSIVE consolidateParts(_, _, _)
consolidateParts(parts, i, consolidated) ==
  IF i > Len(parts) THEN [j \in 1..Len(consolidated) |-> consolidated[j].v]
  ELSE LET key == ConsolidationKey(parts[i])
       IN  IF HasKey(consolidated, key)
           THEN consolidateParts(parts, i + 1,
                  [j \in 1..Len(consolidated) |->
                     IF consolidated[j].k = key
                     THEN Entry(key, [consolidated[j].v EXCEPT
                                        !.quantity = Add(@, parts[i].quantity)])
                     ELSE consolidated[j]])
           ELSE consolidateParts(parts, i + 1, Append(consolidated, Entry(key, parts[i])))

\* The object the identifier context names while the assignments
\* context[key] = value run (lines 1358, 1360, 1368, 1433, 1435, 1448,
\* 1450): the object literal of line 1304 or the spread of line 1420, an
\* object of the call's own and none of its arguments.
\* Mutant of ContextObject: the assignments go to pattern.variables.
ContextObject_Variables(a) == "pattern.variables"

ContextObject(a) == "own"

\* The arguments of a call after the assignments that left the object
\* named by object holding written.
ArgsAfterWrites(a, object, written) ==
  CASE object = "pattern.variables" -> [a EXCEPT !.pattern.variables = written]
    [] object = "variableOverrides" -> [a EXCEPT !.variableOverrides = written]
    [] OTHER -> a

(***************************************************************************)
(* State.                                                                  *)
(*   pc         where the call under way stands                            *)
(*   expression, context   the arguments of an evaluateExpression call;    *)
(*              in calculateParts, context is its local variable context   *)
(*   formula    the formula an expression was written from, if any         *)
(*   result     what evaluateExpression gave, or consolidateParts returned *)
(*   args       the arguments of a call, as they were when it was made     *)
(*   ruleIndex  the part rule the for loop of calculateParts is at         *)
(*   parts      the local array parts of calculateParts; the array parts   *)
(*              handed to consolidateParts                                 *)
(*   log        what the loop of calculateParts did, rule by rule          *)
(*   currentProject, ui   the fields of that name of the cabinet store,    *)
(*              ui with its field selectedCabinetId; 0 stands for null     *)
(*   generated  how many ids generateId of the cabinet store has made; the *)
(*              n-th id is n                                               *)
(***************************************************************************)
VARIABLES pc, expression, formula, context, result, args, ruleIndex, parts, log,
          currentProject, ui, generated

vars == <<pc, expression, formula, context, result, args, ruleIndex, parts, log,
          currentProject, ui, generated>>

NoResult == [threw |-> FALSE, v |-> NaN, warn |-> "none", processedExpr |-> ""]
NoFormula == [ast |-> <<"none">>, sp |-> ""]
NoArgs == [pattern |-> "none"]
\* currentProject: null
NoProject == [defined |-> FALSE, id |-> 0, cabinets |-> <<>>]

(***************************************************************************)
(* Formulas: a name, a numeric literal, or two formulas joined by one of   *)
(* + - * /.  Written out with the parentheses the shape needs and with sp  *)
(* between the tokens.                                                     *)
(***************************************************************************)
Formulas(names) ==
  LET ops == {"+", "-", "*", "/"}
      literals == {"2"}
      leaves == {<<"name", n>> : n \in names} \cup {<<"lit", l>> : l \in literals}
      oneOp == {<<"bin", op, l, r>> : op \in ops, l \in leaves, r \in leaves}
      twoOps ==
        {<<"bin", op, l, r>> : op \in ops, l \in leaves, r \in oneOp}
        \cup {<<"bin", op, l, r>> : op \in ops, l \in oneOp, r \in leaves}
  IN  leaves \cup oneOp \cup twoOps

Precedence(ast) ==
  IF ast[1] # "bin" THEN 3 ELSE IF ast[2] \in {"*", "/"} THEN 2 ELSE 1

\* The text of a formula: its names written as they are (valued = FALSE) or
\* as the decimal text of the numbers ctx binds them to (valued = TRUE).
RECURSIVE Render(_, _, _, _)
Render(ast, sp, ctx, valued) ==
  IF ast[1] = "name"
    THEN (IF valued THEN NumberToString(ContextValue(ctx, ast[2])) ELSE ast[2])
  ELSE IF ast[1] = "lit" THEN ast[2]
  ELSE LET l == Render(ast[3], sp, ctx, valued)
           r == Render(ast[4], sp, ctx, valued)
           lt == IF Precedence(ast[3]) < Precedence(ast) THEN "(" \o l \o ")" ELSE l
           rt == IF Precedence(ast[4]) <= Precedence(ast) THEN "(" \o r \o ")" ELSE r
       IN  lt \o sp \o ast[2] \o sp \o rt

FormulaText(ast, sp) == Render(ast, sp, <<>>, FALSE)
ValuedText(ast, sp, ctx) == Render(ast, sp, ctx, TRUE)

\* The value of a formula under standard precedence, each name denoting
\* the number the context binds it to.
RECURSIVE FormulaValue(_, _)
FormulaValue(ast, ctx) ==
  IF ast[1] = "name" THEN ContextValue(ctx, ast[2])
  ELSE IF ast[1] = "lit" THEN Num(DigitsValue(ast[2], 1, Len(ast[2]) + 1, 0))
  ELSE LET l == FormulaValue(ast[3], ctx)
           r == FormulaValue(ast[4], ctx)
       IN  CASE ast[2] = "+" -> Add(l, r)
             [] ast[2] = "-" -> Sub(l, r)
             [] ast[2] = "*" -> Mul(l, r)
             [] ast[2] = "/" -> Div(l, r)

(***************************************************************************)
(* Inputs of evaluateExpression.                                           *)
(***************************************************************************)
KeysOf(ctx) == {ctx[i].k : i \in 1..Len(ctx)}

\* The formulas written against a few contexts.
FormulaInputs ==
  LET contexts ==
        { <<Entry("total_height", Num(720)), Entry("thickness", Num(18))>>,
          <<Entry("thickness", Num(18)), Entry("material_thickness", Num(16))>>,
          <<Entry("material_thickness", Num(16)), Entry("thickness", Num(18))>>,
          <<Entry("width", Num(5)), Entry("total_width", Num(600))>>,
          <<Entry("total_width", Num(30)), Entry("internal_width", Num(-6))>>,
          <<Entry("door_count", Num(0)), Entry("drawer_slide_offset", Rat(25, 2))>> }
  IN  UNION { { [expression |-> FormulaText(ast, sp), context |-> ctx,
                 formula |-> [ast |-> ast, sp |-> sp]] :
                  sp \in {"", " "}, ast \in Formulas(KeysOf(ctx)) } :
              ctx \in contexts }

MaxLen == 3

\* Every string of at most MaxLen characters of alphabet.
EnumeratedInputs ==
  LET alphabet == {"0", "1", "2", "+", "-", "*", "/", "(", ")", " ", "x"}
      StringsUpTo[n \in 0..MaxLen] ==
        IF n = 0 THEN {""}
        ELSE StringsUpTo[n - 1] \cup {s \o c : s \in StringsUpTo[n - 1], c \in alphabet}
  IN  { [expression |-> s, context |-> <<Entry("x", Num(3))>>, formula |-> NoFormula] :
          s \in StringsUpTo[MaxLen] }

\* Expressions and contexts of the documentation, and others by hand.
SampleInputs ==
  LET contexts ==
        { <<Entry("total_height", Num(720)), Entry("material_thickness", Num(18)),
            Entry("thickness", Num(18))>>,
          <<Entry("x", Num(10))>>,
          <<Entry("Gap", Num(3)), Entry("gap-size", Num(2))>>,
          <<Entry("w(", Num(1))>>,
          <<Entry("total_width", Num(600)), Entry("qty*", Num(2))>>,
          <<Entry("ratio", PosInf), Entry("bad", NaN)>> }
      expressions ==
        { "total_height - 2 * thickness", "Total_Height-2*Material_Thickness",
          "console.log(\"hack\")", "x; x", "thickness2", "door_thickness",
          "1)+(2", "2**2", "4 /* 2 */", "1 + + 2", "1 2", "(1", "1 * / 2", "()",
          "1/0", "0/0", "-1/0", "1/4", "2/3", "12.5*2", "010", "/1/**0",
          "gap * 2", "gap-size * 2", "total_width / 2", "ratio", "bad + 1", "1" }
  IN  { [expression |-> e, context |-> c, formula |-> NoFormula] :
          e \in expressions, c \in contexts }

(***************************************************************************)
(* The specification of evaluateExpression: one call on any of the inputs. *)
(***************************************************************************)
InitEval ==
  /\ pc = "eval"
  /\ \E input \in FormulaInputs \cup EnumeratedInputs \cup SampleInputs :
       /\ expression = input.expression
       /\ context = input.context
       /\ formula = input.formula
  /\ result = NoResult
  /\ args = NoArgs
  /\ ruleIndex = 0
  /\ parts = <<>>
  /\ log = <<>>
  /\ currentProject = NoProject
  /\ ui = [selectedCabinetId |-> 0]
  /\ generated = 0

EvaluateExpression ==
  /\ pc = "eval"
  /\ result' = evaluateExpression(expression, context)
  /\ pc' = IF result'.threw THEN "threw" ELSE "returned"
  /\ UNCHANGED <<expression, formula, context, args, ruleIndex, parts, log,
               currentProject, ui, generated>>

SpecEval == InitEval /\ [][EvaluateExpression]_vars

\* Every number the model computed is one it can represent.
AllRepresentable == result.v # Unrepresentable

(***************************************************************************)
(* Inputs of calculateParts.                                               *)
(***************************************************************************)
MaxRules == 2

NoEdgeBanding == [length1 |-> FALSE, length2 |-> FALSE, width1 |-> FALSE, width2 |-> FALSE]

PartRule(id, partName, l, w, q, materialId, eb) ==
  [ id |-> id, partName |-> partName,
    lengthExpression |-> l, widthExpression |-> w, quantityExpression |-> q,
    materialId |-> materialId, material |-> "carcass", grain |-> "length",
    edgeBanding |-> eb ]

RuleLibrary ==
  { PartRule("rule-side", "Side", "side_height", "total_depth", "2", "",
             [NoEdgeBanding EXCEPT !.length1 = TRUE, !.width1 = TRUE]),
    PartRule("rule-shelf", "Shelf", "internal_width", "internal_depth - shelf_inset",
             "shelf_count", "m1", [NoEdgeBanding EXCEPT !.length1 = TRUE]),
    PartRule("rule-shim", "Shim", "part_thickness / 100", "total_depth", "0 - 3", "m2",
             NoEdgeBanding),
    PartRule("rule-filler", "Filler", "thickness - total_width", "total_height", "1", "m9",
             NoEdgeBanding),
    PartRule("rule-strip", "Strip", "back_width", "100", "1/0", "", NoEdgeBanding) }

RECURSIVE SeqsUpTo(_, _)
SeqsUpTo(S, n) ==
  IF n = 0 THEN {<<>>}
  ELSE LET shorter == SeqsUpTo(S, n - 1)
       IN  shorter \cup {Append(s, x) : s \in shorter, x \in S}

Zone(id, type) == [id |-> id, type |-> type]
Column(id, zones) == [id |-> id, zones |-> zones]
NoPatternMaterials ==
  [carcass |-> Undefined, back |-> Undefined, front |-> Undefined, shelf |-> Undefined]

\* Zone ids have the shape the editor generates: digits, a dash, letters
\* and digits (PatternEditor.tsx line 15).
FlatPattern ==
  [ zones |-> <<Zone("1700-drw", "drawer"), Zone("1700-dor", "door"),
                Zone("1700-shf", "shelf")>>,
    columns |-> <<>>, columnProportions |-> NoArray,
    materials |-> NoPatternMaterials, variables |-> <<>> ]

EmptyPattern == [FlatPattern EXCEPT !.zones = <<>>]

ThinPattern ==
  [FlatPattern EXCEPT !.materials = [NoPatternMaterials EXCEPT !.carcass = Num(16),
                                                                 !.back = Num(3)],
                      !.variables = <<Entry("toe_kick", Num(100))>>]

ColumnPattern ==
  [ zones |-> <<>>,
    columns |-> <<Column("col-a", <<Zone("a-top", "door"), Zone("a-low", "drawer")>>),
                  Column("col-b", <<Zone("b-all", "fixed-shelf")>>)>>,
    columnProportions |-> Array(<<Rat(2, 5), Rat(3, 5)>>),
    materials |-> NoPatternMaterials, variables |-> <<>> ]

Dimensions == [height |-> Num(720), width |-> Num(600), depth |-> Num(560)]
Settings ==
  [ materialThickness |-> Num(18), backPanelThickness |-> Num(6),
    backPanelGrooveDepth |-> Num(10), defaultEdgeBanding |-> Rat(1, 2) ]

InsetRuleSet ==
  [ id |-> "rs-inset",
    construction |-> [sideConstruction |-> "all-between", backPanelMethod |-> "inset-groove"],
    offsets |-> [drawerFrontGap |-> Num(0), doorGap |-> Num(2), shelfInset |-> Num(10),
                 drawerSlideOffset |-> Num(13), backPanelThickness |-> Num(4),
                 backGrooveDepth |-> Num(8)] ]

Material(id, thickness) == [id |-> id, thickness |-> thickness]
MaterialLibrary == <<Material("m1", Num(19)), Material("m2", Num(25))>>

Scenario(pattern, variableOverrides, zoneProportions, ruleSet, materials, materialOverrides) ==
  [ pattern |-> pattern, dimensions |-> Dimensions, globalSettings |-> Settings,
    variableOverrides |-> variableOverrides, zoneProportions |-> zoneProportions,
    ruleSet |-> ruleSet, materials |-> materials,
    materialOverrides |-> materialOverrides ]

\* Calls as the callers make them: the pattern's rules are filled in below.
\* materialOverrides binds a rule id to a material id.
Scenarios ==
  { Scenario(FlatPattern, <<>>, NoArray, NoRuleSet, <<>>, <<>>),
    Scenario(FlatPattern, <<>>, Array(<<Rat(1, 2), Rat(1, 4), Rat(1, 4)>>), NoRuleSet,
             MaterialLibrary, <<Entry("rule-shelf", "m2"), Entry("rule-side", "m1")>>),
    Scenario(ThinPattern, <<>>, NoArray, InsetRuleSet, MaterialLibrary, <<>>),
    Scenario(ThinPattern, <<Entry("shelf_inset", Num(30))>>, NoArray, NoRuleSet,
             MaterialLibrary, <<Entry("rule-shim", "m1")>>),
    Scenario(ColumnPattern, <<>>, NoArray, InsetRuleSet, MaterialLibrary, <<>>),
    Scenario(EmptyPattern, <<>>, Array(<<Num(1)>>), NoRuleSet, MaterialLibrary, <<>>),
    Scenario(FlatPattern, <<Entry("w(", Num(1))>>, NoArray, NoRuleSet, <<>>, <<>>),
    Scenario(FlatPattern,
             <<Entry("part_thickness", Num(40)), Entry("zone_0_height", Num(5))>>,
             NoArray, NoRuleSet, MaterialLibrary \o <<Material("m1", Num(30))>>, <<>>) }

\* The last call is the one of the documentation: the single rule Lateral,
\* no ruleSet, overrides or materials.
PartsInputs ==
  LET WithRules(s, rules) ==
        [s EXCEPT !.pattern = [partRules |-> rules, zones |-> s.pattern.zones,
                               columns |-> s.pattern.columns,
                               columnProportions |-> s.pattern.columnProportions,
                               materials |-> s.pattern.materials,
                               variables |-> s.pattern.variables]]
      lateral ==
        PartRule("rule-lateral", "Lateral", "total_height - 2*material_thickness",
                 "total_depth - back_thickness", "2", "", NoEdgeBanding)
  IN  { WithRules(s, rules) : s \in Scenarios, rules \in SeqsUpTo(RuleLibrary, MaxRules) }
      \cup { WithRules(Scenario(FlatPattern, <<>>, NoArray, NoRuleSet, <<>>, <<>>),
                       <<lateral>>) }

(***************************************************************************)
(* The specification of calculateParts: one call on any of the inputs.     *)
(* log keeps what the loop computed for each rule it reached; a call that  *)
(* throws returns no list.                                                 *)
(***************************************************************************)
\* The for loop over pattern.partRules from rule i on (lines 1461-1508);
\* AfterRule is the loop once the body has run for rule i with outcome.
RECURSIVE ProcessRules(_, _, _, _, _, _)
AfterRule(rules, i, ctx, materials, partsSoFar, logSoFar, outcome) ==
  IF outcome.threw
  THEN [threw |-> TRUE, parts |-> <<>>, log |-> Append(logSoFar, outcome),
        context |-> SharedContext(ctx, outcome.partThickness)]
  ELSE ProcessRules(rules, i + 1, SharedContext(ctx, outcome.partThickness), materials,
                    PartsAfterRule(partsSoFar, outcome), Append(logSoFar, outcome))

ProcessRules(rules, i, ctx, materials, partsSoFar, logSoFar) ==
  IF i > Len(rules)
  THEN [threw |-> FALSE, parts |-> partsSoFar, log |-> logSoFar, context |-> ctx]
  ELSE AfterRule(rules, i, ctx, materials, partsSoFar, logSoFar,
                 RuleOutcome(rules[i], ctx, materials))

calculateParts(a) ==
  ProcessRules(a.pattern.partRules, 1, PrepareContext(a), a.materials, <<>>, <<>>)

InitParts ==
  /\ pc = "calc"
  /\ args \in PartsInputs
  /\ expression = ""
  /\ formula = NoFormula
  /\ context = <<>>
  /\ result = NoResult
  /\ ruleIndex = 0
  /\ parts = <<>>
  /\ log = <<>>
  /\ currentProject = NoProject
  /\ ui = [selectedCabinetId |-> 0]
  /\ generated = 0

CalculateParts ==
  /\ pc = "calc"
  /\ \E r \in {calculateParts(args)} :
       /\ pc' = IF r.threw THEN "threw" ELSE "returned"
       /\ parts' = r.parts
       /\ log' = r.log
       /\ ruleIndex' = Len(r.log)
       /\ context' = r.context
       /\ args' = ArgsAfterWrites(args, ContextObject(args), r.context)
  /\ UNCHANGED <<expression, formula, result, currentProject, ui, generated>>

SpecParts == InitParts /\ [][CalculateParts]_vars

\* Every number calculateParts computed is one the model can represent.
AllPartsRepresentable ==
  \A i \in 1..Len(log) :
    /\ log[i].length # Unrepresentable
    /\ log[i].width # Unrepresentable
    /\ log[i].quantityValue # Unrepresentable

(***************************************************************************)
(* The specification of buildExpressionContext: one call on any of the     *)
(* inputs; context is the mapping returned.                                *)
(***************************************************************************)
ContextInputs ==
  LET sideConstructions == {"sides-on-bottom", "bottom-between-sides", "all-between"}
      backPanelMethods == {"overlay", "inset-groove", "inset-rebate"}
      \* the offsets of a rule set: every offset set, and offsets of 0
      offsets ==
        { InsetRuleSet.offsets,
          [drawerFrontGap |-> Num(2), doorGap |-> Num(0), shelfInset |-> Num(0),
           drawerSlideOffset |-> Rat(25, 2), backPanelThickness |-> Num(0),
           backGrooveDepth |-> Num(0)] }
      ruleSets ==
        {NoRuleSet} \cup
        { [id |-> "rs", construction |-> [sideConstruction |-> s, backPanelMethod |-> b],
           offsets |-> o] :
            s \in sideConstructions, b \in backPanelMethods, o \in offsets }
      materials ==
        { [carcass |-> c, back |-> b, front |-> f, shelf |-> s] :
            c \in {Undefined, Num(16)}, b \in {Undefined, Num(3)},
            f \in {Undefined, Num(19)}, s \in {Undefined, Num(22)} }
      \* flat zones, or two columns: with no proportions, with proportions
      \* that sum to 1, and with proportions that do not
      layouts ==
        { [zones |-> FlatPattern.zones, columns |-> <<>>, columnProportions |-> NoArray],
          [zones |-> <<>>, columns |-> ColumnPattern.columns, columnProportions |-> NoArray],
          [zones |-> <<>>, columns |-> ColumnPattern.columns,
           columnProportions |-> ColumnPattern.columnProportions],
          [zones |-> <<>>, columns |-> ColumnPattern.columns,
           columnProportions |-> Array(<<Num(1), Num(3)>>)] }
      variables ==
        { <<>>,
          <<Entry("toe_kick", Num(100))>>,
          <<Entry("total_width", Num(500)), Entry("side_height", Num(700)),
            Entry("thickness", Num(20)), Entry("door_count", Num(4)),
            Entry("column_0_width", Num(7))>> }
      dimensions ==
        { Dimensions, [height |-> Num(2000), width |-> Num(450), depth |-> Num(300)] }
  IN  { [ dimensions |-> d, globalSettings |-> Settings, ruleSet |-> r,
          variableOverrides |-> <<>>, zoneProportions |-> NoArray, materials |-> <<>>,
          pattern |-> [zones |-> l.zones, columns |-> l.columns,
                       columnProportions |-> l.columnProportions,
                       materials |-> m, variables |-> v, partRules |-> <<>>] ] :
          d \in dimensions, r \in ruleSets, l \in layouts,
          m \in materials, v \in variables }

InitContext ==
  /\ pc = "build"
  /\ args \in ContextInputs
  /\ expression = ""
  /\ formula = NoFormula
  /\ context = <<>>
  /\ result = NoResult
  /\ ruleIndex = 0
  /\ parts = <<>>
  /\ log = <<>>
  /\ currentProject = NoProject
  /\ ui = [selectedCabinetId |-> 0]
  /\ generated = 0

BuildExpressionContext ==
  /\ pc = "build"
  /\ \E c \in {buildExpressionContext(args.dimensions, args.globalSettings,
                                       args.pattern, args.ruleSet)} :
       /\ context' = c
       /\ args' = ArgsAfterWrites(args, ContextObject(args), c)
  /\ pc' = "built"
  /\ UNCHANGED <<expression, formula, result, ruleIndex, parts, log,
               currentProject, ui, generated>>

SpecContext == InitContext /\ [][BuildExpressionContext]_vars

(***************************************************************************)
(* The specification of consolidateParts: one call on a list of at most    *)
(* MaxParts parts, as calculateParts emits them for rules that differ in   *)
(* their formulas, their material name or the material they refer to.      *)
(***************************************************************************)
MaxParts == 3

InitConsolidate ==
  LET CutPart(partName, length, width, quantity, materialId, material) ==
        [ partName |-> partName, length |-> Num(length), width |-> Num(width),
          quantity |-> Num(quantity), materialId |-> materialId, material |-> material,
          grain |-> "length", edgeBanding |-> "" ]
      cutParts ==
        { CutPart("Lateral", 684, 554, 2, "m1", "MDF"),
          CutPart("Lateral", 684, 554, 1, "m2", "MDF"),
          CutPart("Lateral", 684, 554, 3, "m1", "MDF"),
          CutPart("Lateral", 684, 554, 2, "m1", "Oak"),
          CutPart("Base", 564, 554, 1, "", "MDF"),
          CutPart("Base", 564, 530, 1, "", "MDF") }
  IN  /\ pc = "consolidate"
      /\ parts \in SeqsUpTo(cutParts, MaxParts)
      /\ args = [parts |-> parts]
      /\ expression = ""
      /\ formula = NoFormula
      /\ context = <<>>
      /\ result = <<>>
      /\ ruleIndex = 0
      /\ log = <<>>
      /\ currentProject = NoProject
      /\ ui = [selectedCabinetId |-> 0]
      /\ generated = 0

\* consolidateParts(parts): the loop only reads parts, its writes go to the
\* copies the Map holds (line 1650).
ConsolidateParts ==
  /\ pc = "consolidate"
  /\ result' = consolidateParts(parts, 1, <<>>)
  /\ pc' = "consolidated"
  /\ UNCHANGED <<expression, formula, context, args, ruleIndex, parts, log,
               currentProject, ui, generated>>

SpecConsolidate == InitConsolidate /\ [][ConsolidateParts]_vars

(***************************************************************************)
(* The cabinet store (cabinetStore.ts 387-494 and 627-630): the project,   *)
(* its cabinets and the selection.  A cabinet is its id and its name; pc   *)
(* is the operation called last and result what it returned, 0 for null or *)
(* nothing.  generateId makes at most MaxIds ids.                          *)
(***************************************************************************)
MaxIds == 4

InitStore ==
  /\ pc = "store"
  /\ currentProject = NoProject
  /\ ui = [selectedCabinetId |-> 0]
  /\ generated = 0
  /\ result = 0
  /\ expression = ""
  /\ formula = NoFormula
  /\ context = <<>>
  /\ args = NoArgs
  /\ ruleIndex = 0
  /\ parts = <<>>
  /\ log = <<>>

\* createProject(name, description, client) (lines 390-401)
CreateProject ==
  /\ generated < MaxIds
  /\ generated' = generated + 1
  /\ currentProject' = [defined |-> TRUE, id |-> generated + 1, cabinets |-> <<>>]
  /\ result' = 0
  /\ pc' = "createProject"
  /\ UNCHANGED <<ui, expression, formula, context, args, ruleIndex, parts, log>>

\* clearProject() (lines 410-411)
ClearProject ==
  /\ currentProject' = NoProject
  /\ ui' = [ui EXCEPT !.selectedCabinetId = 0]
  /\ result' = 0
  /\ pc' = "clearProject"
  /\ UNCHANGED <<generated, expression, formula, context, args, ruleIndex, parts, log>>

\* addCabinet(cabinetData) (lines 414-435)
AddCabinet ==
  /\ generated < MaxIds
  /\ \E name \in {"Base"} :
       currentProject' =
         IF currentProject.defined
         THEN [currentProject EXCEPT
                 !.cabinets = Append(@, [id |-> generated + 1, name |-> name])]
         ELSE NoProject
  /\ generated' = generated + 1
  /\ ui' = [ui EXCEPT !.selectedCabinetId = generated + 1]
  /\ result' = generated + 1
  /\ pc' = "addCabinet"
  /\ UNCHANGED <<expression, formula, context, args, ruleIndex, parts, log>>

\* updateCabinet(id, updates) (lines 437-448), updates giving a new name
UpdateCabinet ==
  /\ \E id \in 1..MaxIds, name \in {"Wall"} :
       currentProject' =
         IF currentProject.defined
         THEN [currentProject EXCEPT
                 !.cabinets = [i \in 1..Len(@) |->
                                 IF @[i].id = id THEN [@[i] EXCEPT !.name = name]
                                 ELSE @[i]]]
         ELSE NoProject
  /\ result' = 0
  /\ pc' = "updateCabinet"
  /\ UNCHANGED <<ui, generated, expression, formula, context, args, ruleIndex, parts, log>>

\* deleteCabinet(id) (lines 450-464)
DeleteCabinet ==
  /\ \E id \in 1..MaxIds :
       /\ currentProject' =
            IF currentProject.defined
            THEN [currentProject EXCEPT !.cabinets = SelectSeq(@, LAMBDA c : c.id # id)]
            ELSE NoProject
       /\ ui' = [ui EXCEPT !.selectedCabinetId = IF @ = id THEN 0 ELSE @]
  /\ result' = 0
  /\ pc' = "deleteCabinet"
  /\ UNCHANGED <<generated, expression, formula, context, args, ruleIndex, parts, log>>

\* duplicateCabinet(id) (lines 466-491); getCabinetById is lines 493-494
DuplicateCabinet ==
  /\ \E id \in 1..MaxIds :
       LET found == SelectSeq(currentProject.cabinets, LAMBDA c : c.id = id)
       IN  IF found = <<>>
           THEN /\ result' = 0
                /\ UNCHANGED <<currentProject, ui, generated>>
           ELSE /\ generated < MaxIds
                /\ generated' = generated + 1
                /\ currentProject' =
                     [currentProject EXCEPT
                        !.cabinets = Append(@, [id |-> generated + 1,
                                                name |-> found[1].name \o " (Copy)"])]
                /\ ui' = [ui EXCEPT !.selectedCabinetId = generated + 1]
                /\ result' = generated + 1
  /\ pc' = "duplicateCabinet"
  /\ UNCHANGED <<expression, formula, context, args, ruleIndex, parts, log>>

\* setSelectedCabinet(id) (lines 627-630) with the id of a cabinet of the
\* project
SetSelectedCabinet ==
  /\ \E i \in 1..Len(currentProject.cabinets) :
       ui' = [ui EXCEPT !.selectedCabinetId = currentProject.cabinets[i].id]
  /\ result' = 0
  /\ pc' = "setSelectedCabinet"
  /\ UNCHANGED <<currentProject, generated, expression, formula, context, args,
                 ruleIndex, parts, log>>

SpecStore ==
  InitStore /\ [][CreateProject \/ ClearProject \/ AddCabinet \/ UpdateCabinet
                  \/ DeleteCabinet \/ DuplicateCabinet \/ SetSelectedCabinet]_vars

(***************************************************************************)
(* The joint library (unnamed/part_005) and the dimensional impact of a    *)
(* joint.  A dimension of a part, length or width, carries the joints of   *)
(* the edges that bound it, each given by the id of a library joint.       *)
(***************************************************************************)
MaxEdges == 2

JointType(id, category, depth, extendsInsertedPiece, tolerance) ==
  [id |-> id, category |-> category, depth |-> depth,
   extendsInsertedPiece |-> extendsInsertedPiece, tolerance |-> tolerance]

\* A library whose shallow dado is cut shallower than its tolerance and
\* whose dowel extends the inserted piece.
defaultJoints_ShallowDadoExtendingDowel ==
  << JointType("butt-simple", "butt", Num(0), FALSE, Num(0)),
     JointType("dado-6mm", "dado", Num(6), TRUE, Rat(1, 2)),
     JointType("dado-8mm", "dado", Num(8), TRUE, Rat(1, 2)),
     JointType("dado-9mm", "dado", Num(9), TRUE, Rat(1, 2)),
     JointType("dado-shallow", "dado", Rat(2, 5), TRUE, Rat(1, 2)),
     JointType("rabbet-back-3mm", "rabbet", Num(3), TRUE, Rat(1, 2)),
     JointType("rabbet-back-6mm", "rabbet", Num(6), TRUE, Rat(1, 2)),
     JointType("rabbet-standard", "rabbet", Num(9), TRUE, Rat(1, 2)),
     JointType("tongue-groove-6mm", "tongue-groove", Num(6), TRUE, Rat(3, 10)),
     JointType("dowel", "dowel", Num(8), TRUE, Num(0)),
     JointType("cam-lock", "cam-lock", Num(0), FALSE, Num(0)),
     JointType("pocket-screw", "pocket-screw", Num(0), FALSE, Num(0)),
     JointType("miter-45", "miter", Num(0), FALSE, Num(0)) >>

defaultJoints ==
  << JointType("butt-simple", "butt", Num(0), FALSE, Num(0)),
     JointType("dado-6mm", "dado", Num(6), TRUE, Rat(1, 2)),
     JointType("dado-8mm", "dado", Num(8), TRUE, Rat(1, 2)),
     JointType("dado-9mm", "dado", Num(9), TRUE, Rat(1, 2)),
     JointType("dado-shallow", "dado", Num(3), TRUE, Rat(1, 2)),
     JointType("rabbet-back-3mm", "rabbet", Num(3), TRUE, Rat(1, 2)),
     JointType("rabbet-back-6mm", "rabbet", Num(6), TRUE, Rat(1, 2)),
     JointType("rabbet-standard", "rabbet", Num(9), TRUE, Rat(1, 2)),
     JointType("tongue-groove-6mm", "tongue-groove", Num(6), TRUE, Rat(3, 10)),
     JointType("dowel", "dowel", Num(0), FALSE, Num(0)),
     JointType("cam-lock", "cam-lock", Num(0), FALSE, Num(0)),
     JointType("pocket-screw", "pocket-screw", Num(0), FALSE, Num(0)),
     JointType("miter-45", "miter", Num(0), FALSE, Num(0)) >>

NoJoint == JointType("", "", Num(0), FALSE, Num(0))

\* getJointById(id): the first joint of the library with the id
getJointById(id) ==
  LET found == SelectSeq(defaultJoints, LAMBDA j : j.id = id)
  IN  IF found = <<>> THEN NoJoint ELSE found[1]

\* extension(joint) = joint.extendsInsertedPiece
\*                      ? max(0, joint.depth - joint.tolerance) : 0
extension(joint) ==
  IF joint.extendsInsertedPiece
  THEN LET reach == Sub(joint.depth, joint.tolerance)
       IN  IF GtZero(reach) THEN reach ELSE Num(0)
  ELSE Num(0)

InitJoints ==
  /\ pc = "joints"
  /\ \E dimension \in {Num(564), Num(684)} :
       \E edges \in SeqsUpTo({defaultJoints[i].id : i \in 1..Len(defaultJoints)}, MaxEdges) :
         args = [dimension |-> dimension, edges |-> edges]
  /\ result = Num(0)
  /\ expression = ""
  /\ formula = NoFormula
  /\ context = <<>>
  /\ ruleIndex = 0
  /\ parts = <<>>
  /\ log = <<>>
  /\ currentProject = NoProject
  /\ ui = [selectedCabinetId |-> 0]
  /\ generated = 0

\* The extension of each edge's joint is computed on its own and added to
\* the dimension the edge bounds.
ApplyJoints ==
  /\ pc = "joints"
  /\ LET extended[i \in 0..Len(args.edges)] ==
           IF i = 0 THEN args.dimension
           ELSE Add(extended[i - 1], extension(getJointById(args.edges[i])))
     IN  result' = extended[Len(args.edges)]
  /\ pc' = "extended"
  /\ UNCHANGED <<expression, formula, context, args, ruleIndex, parts, log,
                 currentProject, ui, generated>>

SpecJoints == InitJoints /\ [][ApplyJoints]_vars

(***************************************************************************)
(* Notions the claims about evaluateExpression use.                        *)
(***************************************************************************)
LowerLetters == {"a", "b", "c", "d", "e", "f", "g", "h", "i", "j", "k", "l", "m",
                 "n", "o", "p", "q", "r", "s", "t", "u", "v", "w", "x", "y", "z"}
IsLetter(c) == LowerChar(c) \in LowerLetters
IsWordChar(c) == IsLetter(c) \/ c \in DigitChars \/ c = "_"

\* The first position at or after i that holds no letter, digit or underscore.
RECURSIVE WordEnd(_, _)
WordEnd(s, i) == IF IsWordChar(Ch(s, i)) THEN WordEnd(s, i + 1) ELSE i

\* The identifiers of s: its maximal runs of letters, digits and underscores
\* that start with a letter.
Identifiers(s) ==
  { SubSeq(s, i, WordEnd(s, i) - 1) :
      i \in { j \in 1..Len(s) : IsLetter(Ch(s, j)) /\ ~IsWordChar(Ch(s, j - 1)) } }

\* Some identifier of the expression is no variable name of the context
\* (names compared without regard to case, as the code matches them).
HasUnknownIdentifier(expr, ctx) ==
  \E id \in Identifiers(ToLowerCase(expr)) :
    \A k \in KeysOf(ctx) : ToLowerCase(k) # id

\* Two numbers are the same number (+0 and -0 are).
SameNumber(x, y) == x = y \/ (IsZero(x) /\ IsZero(y))

\* The arithmetic grammar: numeric literals, + - * /, parentheses, blanks
\* between tokens; read generously, a sign may stand before an operand.
\* Each recogniser gives the position after what it read, 0 if it read none.
RECURSIVE SkipBlanks(_, _)
SkipBlanks(s, i) == IF Ch(s, i) \in WhiteSpace THEN SkipBlanks(s, i + 1) ELSE i

GrammarNumber(s, i) ==
  LET e1 == DigitsEnd(s, i)
      e2 == IF Ch(s, e1) = "." THEN DigitsEnd(s, e1 + 1) ELSE e1
  IN  IF e2 - i >= 2 \/ (e2 - i = 1 /\ e1 > i) THEN e2 ELSE 0

RECURSIVE GrammarSum(_, _), GrammarSumRest(_, _), GrammarProduct(_, _)
RECURSIVE GrammarProductRest(_, _), GrammarOperand(_, _)

GrammarOperand(s, i0) ==
  LET i == SkipBlanks(s, i0)
      c == Ch(s, i)
  IN  IF c \in {"+", "-"} THEN GrammarOperand(s, i + 1)
      ELSE IF c = "(" THEN
             LET e == GrammarSum(s, i + 1)
                 j == IF e = 0 THEN 0 ELSE SkipBlanks(s, e)
             IN  IF e # 0 /\ Ch(s, j) = ")" THEN j + 1 ELSE 0
      ELSE GrammarNumber(s, i)

GrammarProductRest(s, i0) ==
  LET i == SkipBlanks(s, i0)
  IN  IF Ch(s, i) \in {"*", "/"} THEN
        LET r == GrammarOperand(s, i + 1)
        IN  IF r = 0 THEN 0 ELSE GrammarProductRest(s, r)
      ELSE i

GrammarProduct(s, i) ==
  LET l == GrammarOperand(s, i) IN IF l = 0 THEN 0 ELSE GrammarProductRest(s, l)

GrammarSumRest(s, i0) ==
  LET i == SkipBlanks(s, i0)
  IN  IF Ch(s, i) \in {"+", "-"} THEN
        LET r == GrammarProduct(s, i + 1)
        IN  IF r = 0 THEN 0 ELSE GrammarSumRest(s, r)
      ELSE i

GrammarSum(s, i) ==
  LET l == GrammarProduct(s, i) IN IF l = 0 THEN 0 ELSE GrammarSumRest(s, l)

\* s is a well-formed arithmetic expression.
WellFormedArithmetic(s) == GrammarSum(s, 1) = Len(s) + 1

(***************************************************************************)
(* Claims about evaluateExpression, under SpecEval.                        *)
(***************************************************************************)
\* C5: evaluateExpression returns a number and never throws, for every
\* string expression and every context, whatever characters the names of
\* the context hold.
C5_NeverThrows ==
  pc # "eval" => pc = "returned" /\ ~result.threw /\ IsNumber(result.v)

\* C6: an expression with an identifier that is no variable name of the
\* context, or one that leaves a character outside the grammar after
\* substitution, evaluates to 0.
C6_UnknownIdentifierGivesZero ==
  (pc = "returned" /\ (HasUnknownIdentifier(expression, context)
                        \/ ~SafePatternTest(result.processedExpr)))
    => IsZero(result.v)

\* C7: a string of grammar characters that is no well-formed arithmetic
\* expression evaluates to 0, under no other meaning.
C7_MalformedGivesZero ==
  (pc = "returned" /\ SafePatternTest(result.processedExpr)
     /\ ~WellFormedArithmetic(result.processedExpr))
    => IsZero(result.v)

\* C8: the value returned is a finite number of at most 2 decimal places
\* (NaN and infinite results are returned as 0).
C8_ResultFiniteTwoPlaces ==
  pc = "returned" => IsFinite(result.v) /\ HasTwoPlaces(result.v)

\* C9: a well-formed formula over names of the context evaluates to its
\* value under standard precedence, rounded to 2 decimals, whatever the
\* numbers bound (positive, zero, negative) and however it is spaced.
C9_FormulaValue ==
  (pc # "eval" /\ formula # NoFormula
     /\ IsFinite(FormulaValue(formula.ast, context)))
    => /\ pc = "returned"
       /\ SameNumber(result.v, RoundTo2(FormulaValue(formula.ast, context)))

\* C10: when one name of the context is part of another, every occurrence
\* of the longer name in a formula is replaced by the longer name's value
\* as a whole: the text after substitution is the formula with each name
\* written as its own value.
C10_LongerNameReplacedWhole ==
  (pc = "returned" /\ formula # NoFormula)
    => result.processedExpr = ValuedText(formula.ast, formula.sp, context)

\* C10 witness: a formula naming material_thickness and thickness was
\* evaluated against a context that lists thickness first.
C10_Witness ==
  /\ pc = "returned"
  /\ context[1].k = "thickness" /\ context[2].k = "material_thickness"
  /\ formula.ast = <<"bin", "-", <<"name", "material_thickness">>, <<"name", "thickness">>>>
  /\ result.processedExpr = "16-18"

(***************************************************************************)
(* Notions the claims about calculateParts use.                            *)
(***************************************************************************)
Returned == pc = "returned" /\ args # NoArgs
IsPositiveInteger(x) == IsFinite(x) /\ Dd(x) = 1 /\ GtZero(x)

\* The material an instance-level override names for a rule, "" when none.
OverrideFor(rule) ==
  LET hits == SelectSeq(args.materialOverrides, LAMBDA e : e.k = rule.id)
  IN  IF hits = <<>> THEN "" ELSE hits[1].v

\* The thickness the documented precedence gives a rule.
DocumentedThickness(rule) ==
  LET global == args.globalSettings.materialThickness
      patternLevel == Coalesce(args.pattern.materials.carcass, global)
      ruleLevel == getMaterialThickness(rule.materialId, args.materials, patternLevel)
  IN  getMaterialThickness(OverrideFor(rule), args.materials, ruleLevel)

\* The parts of the rules of log, in order, whose length and width are > 0.
RECURSIVE PositiveParts(_)
PositiveParts(entries) ==
  IF entries = <<>> THEN <<>>
  ELSE LET e == Head(entries)
           rest == PositiveParts(Tail(entries))
       IN  IF GtZero(e.length) /\ GtZero(e.width) THEN <<e.part>> \o rest ELSE rest

\* C1: every part calculateParts returns has a rounded length > 0 and a
\* rounded width > 0, whatever its formulas evaluate to.
C1_EmittedDimensionsPositive ==
  Returned => \A i \in 1..Len(parts) : GtZero(parts[i].length) /\ GtZero(parts[i].width)

\* C2: the thickness injected as part_thickness for a rule is the first
\* present of: the materialOverrides entry of the rule, the library
\* thickness of the rule's materialId, the pattern's thickness, the global
\* default thickness.
C2_ThicknessPrecedence ==
  Returned => \A i \in 1..Len(log) :
                SameNumber(log[i].partThickness, DocumentedThickness(log[i].rule))

\* C3: the returned list is, in rule order, one part per rule whose length
\* and width are both > 0; every rule is processed, nothing is reordered or
\* merged, and no rules give the empty list.
C3_OnePartPerPositiveRuleInOrder ==
  Returned =>
    /\ Len(log) = Len(args.pattern.partRules)
    /\ \A i \in 1..Len(log) : log[i].rule = args.pattern.partRules[i]
    /\ parts = PositiveParts(log)
    /\ (args.pattern.partRules = <<>> => parts = <<>>)

\* C3 witness: a call returned whose first rule was dropped and whose second
\* rule was emitted.
C3_Witness ==
  /\ Returned
  /\ Len(log) = 2
  /\ log[1].skip
  /\ ~log[2].skip
  /\ Len(parts) = 1
  /\ parts[1].partName = log[2].rule.partName

\* C4: every returned part has a quantity that is a finite integer >= 1,
\* max(1, round(q)) of the evaluated quantity formula q.
C4_QuantityFiniteInteger ==
  Returned => \A i \in 1..Len(parts) : IsPositiveInteger(parts[i].quantity)


(***************************************************************************)
(* Notions the claims about buildExpressionContext use.                    *)
(***************************************************************************)
Built == pc = "built"
\* A pattern variable of this name shadows the built-in one.
Shadowed(name) == HasKey(args.pattern.variables, name)
\* context[name] is x, unless a pattern variable shadows the name.
BuiltIn(name, x) ==
  Shadowed(name) \/ (HasKey(context, name) /\ SameNumber(ContextValue(context, name), x))

HeightOf(a) == a.dimensions.height
WidthOf(a) == a.dimensions.width
\* The effective carcass thickness: the pattern's, else the global one.
CarcassThicknessOf(a) ==
  IF a.pattern.materials.carcass # Undefined THEN a.pattern.materials.carcass
  ELSE a.globalSettings.materialThickness
SideConstructionOf(a) ==
  IF a.ruleSet.id = "none" THEN "sides-on-bottom"
  ELSE a.ruleSet.construction.sideConstruction
BackPanelMethodOf(a) ==
  IF a.ruleSet.id = "none" THEN "overlay" ELSE a.ruleSet.construction.backPanelMethod
Twice(x) == Mul(Num(2), x)

\* C11: side_height, bottom_width and top_width follow the side
\* construction: sides-on-bottom (or no ruleSet) H, W - 2t, W - 2t;
\* bottom-between-sides H - t, W, W - 2t; all-between H - 2t, W - 2t, W - 2t.
C11_SideConstructionFormulas ==
  Built =>
    LET H == HeightOf(args)
        W == WidthOf(args)
        th == CarcassThicknessOf(args)
        s == SideConstructionOf(args)
    IN  /\ s = "sides-on-bottom" =>
             /\ BuiltIn("side_height", H)
             /\ BuiltIn("bottom_width", Sub(W, Twice(th)))
             /\ BuiltIn("top_width", Sub(W, Twice(th)))
        /\ s = "bottom-between-sides" =>
             /\ BuiltIn("side_height", Sub(H, th))
             /\ BuiltIn("bottom_width", W)
             /\ BuiltIn("top_width", Sub(W, Twice(th)))
        /\ s = "all-between" =>
             /\ BuiltIn("side_height", Sub(Sub(H, th), th))
             /\ BuiltIn("bottom_width", Sub(W, Twice(th)))
             /\ BuiltIn("top_width", Sub(W, Twice(th)))

\* C11 witness: a context was built for width 600 and thickness 18 with
\* bottom-between-sides: bottom_width is 600 and side_height is 702.
C11_Witness ==
  /\ Built
  /\ SideConstructionOf(args) = "bottom-between-sides"
  /\ WidthOf(args) = Num(600) /\ CarcassThicknessOf(args) = Num(18)
  /\ ~Shadowed("side_height")
  /\ ContextValue(context, "bottom_width") = Num(600)
  /\ ContextValue(context, "side_height") = Num(702)

\* C12: back_width and back_height are W - 2t and H - 2t with the overlay
\* method (or no ruleSet), and 2 x groove depth less with an inset method.
C12_BackPanelFormulas ==
  Built =>
    LET H == HeightOf(args)
        W == WidthOf(args)
        th == CarcassThicknessOf(args)
        g == args.globalSettings.backPanelGrooveDepth
        inset == BackPanelMethodOf(args) \in {"inset-groove", "inset-rebate"}
        less == IF inset THEN Twice(g) ELSE Num(0)
    IN  /\ BuiltIn("back_width", Sub(Sub(W, Twice(th)), less))
        /\ BuiltIn("back_height", Sub(Sub(H, Twice(th)), less))

\* C12 witness: a context was built with the inset-rebate method for
\* 720 x 600, thickness 18 and groove depth 10: back_width is 544.
C12_Witness ==
  /\ Built
  /\ BackPanelMethodOf(args) = "inset-rebate"
  /\ args.dimensions = Dimensions /\ CarcassThicknessOf(args) = Num(18)
  /\ ContextValue(context, "back_width") = Num(544)
  /\ ContextValue(context, "back_height") = Num(664)

\* What a role's thickness is when the pattern may declare one: the
\* declared one, else the default.
DeclaredOr(declared, default) == IF declared # Undefined THEN declared ELSE default

\* C13: material_thickness, thickness and carcass_thickness are the
\* pattern's carcass thickness when declared and the global
\* materialThickness otherwise; front_thickness and shelf_thickness are the
\* pattern's front / shelf thickness when declared and the global
\* materialThickness otherwise.
C13_RoleThicknessFallsBackToGlobal ==
  Built =>
    LET m == args.pattern.materials
        global == args.globalSettings.materialThickness
    IN  /\ BuiltIn("material_thickness", DeclaredOr(m.carcass, global))
        /\ BuiltIn("thickness", DeclaredOr(m.carcass, global))
        /\ BuiltIn("carcass_thickness", DeclaredOr(m.carcass, global))
        /\ BuiltIn("front_thickness", DeclaredOr(m.front, global))
        /\ BuiltIn("shelf_thickness", DeclaredOr(m.shelf, global))

\* C14: back_thickness is the pattern's back thickness when declared and
\* the global backPanelThickness otherwise, whatever the ruleSet.
C14_BackThicknessIgnoresRuleSet ==
  Built =>
    BuiltIn("back_thickness",
            DeclaredOr(args.pattern.materials.back, args.globalSettings.backPanelThickness))

\* The proportion of entry i of an optional array of n proportions: the
\* entry, or 1/n when there is no array.
ProportionOf(array, i, n) == IF array.defined THEN array.items[i] ELSE Rat(1, n)

\* The proportions arrays the callers build: as many entries as there are
\* columns, each of them > 0.
WellFormedProportions(array, n) ==
  array.defined =>
    /\ Len(array.items) = n
    /\ \A i \in 1..n : GtZero(array.items[i])

\* C16: with columns, column_i_width and the name derived from the column's
\* id are both round(internal_width x p_i), p_i the i-th column proportion,
\* 1/n when the pattern has no proportions.
C16_ColumnWidths ==
  Built /\ Len(args.pattern.columns) > 0
        /\ WellFormedProportions(args.pattern.columnProportions, Len(args.pattern.columns)) =>
    LET columns == args.pattern.columns
        n == Len(columns)
        internalWidth == Sub(WidthOf(args), Twice(CarcassThicknessOf(args)))
    IN  \A i \in 1..n :
          LET colWidth ==
                MathRound(Mul(internalWidth,
                              ProportionOf(args.pattern.columnProportions, i, n)))
          IN  /\ BuiltIn("column_" \o NatToString(i - 1) \o "_width", colWidth)
              /\ BuiltIn(IdToName(columns[i].id) \o "_width", colWidth)

\* C16 witness: a context was built for width 600 and thickness 18 with the
\* columns col-a and col-b in proportions 2/5 and 3/5: column_0_width and
\* col_a_width are 226, column_1_width and col_b_width are 338.
C16_Witness ==
  /\ Built
  /\ Len(args.pattern.columns) = 2
  /\ args.pattern.columnProportions = Array(<<Rat(2, 5), Rat(3, 5)>>)
  /\ WidthOf(args) = Num(600) /\ CarcassThicknessOf(args) = Num(18)
  /\ args.pattern.variables = <<>>
  /\ ContextValue(context, "column_0_width") = Num(226)
  /\ ContextValue(context, "col_a_width") = Num(226)
  /\ ContextValue(context, "column_1_width") = Num(338)
  /\ ContextValue(context, "col_b_width") = Num(338)

\* The sum of the entries of a sequence of numbers.
SumOf(items) ==
  LET Partial[i \in 0..Len(items)] ==
        IF i = 0 THEN Num(0) ELSE Add(Partial[i - 1], items[i])
  IN  Partial[Len(items)]

\* C17: a proportions array that does not sum to 1 is normalized before
\* use: each column width is round(internal_width x p_i / sum).
C17_ProportionsNormalized ==
  Built /\ Len(args.pattern.columns) > 0 /\ args.pattern.columnProportions.defined
        /\ WellFormedProportions(args.pattern.columnProportions, Len(args.pattern.columns)) =>
    LET items == args.pattern.columnProportions.items
        internalWidth == Sub(WidthOf(args), Twice(CarcassThicknessOf(args)))
    IN  \A i \in 1..Len(items) :
          BuiltIn("column_" \o NatToString(i - 1) \o "_width",
                  MathRound(Mul(internalWidth, Div(items[i], SumOf(items)))))

\* C18: every entry of pattern.variables is in the mapping with the
\* pattern's value, whatever built-in, derived or column-width variable
\* has the same name.
C18_PatternVariablesOverride ==
  Built =>
    \A j \in 1..Len(args.pattern.variables) :
      /\ HasKey(context, args.pattern.variables[j].k)
      /\ ContextValue(context, args.pattern.variables[j].k) = args.pattern.variables[j].v

\* C18 witness: a context was built for width 600 and a pattern with
\* columns whose variables bind total_width to 500 and column_0_width to 7:
\* the mapping gives 500 and 7.
C18_Witness ==
  /\ Built
  /\ WidthOf(args) = Num(600)
  /\ Len(args.pattern.columns) > 0
  /\ Shadowed("total_width") /\ Shadowed("column_0_width")
  /\ ContextValue(context, "total_width") = Num(500)
  /\ ContextValue(context, "column_0_width") = Num(7)

\* calculateParts ended, by returning or by throwing; context is its local
\* variable context at that point.
Ended == pc \in {"returned", "threw"} /\ args # NoArgs

Has(name, x) == HasKey(context, name) /\ SameNumber(ContextValue(context, name), x)

\* The proportion of flat zone i of n: the entry of zoneProportions when the
\* array is supplied for the n zones, 1/n otherwise.
ZoneProportionOf(a, i, n) ==
  IF a.zoneProportions.defined /\ Len(a.zoneProportions.items) = n
  THEN a.zoneProportions.items[i] ELSE Rat(1, n)

\* C15: for every zone, the index-keyed height variable and the one named
\* after the zone's id are both round(internal_height x p_i), where
\* internal_height is the variable of that name in the same context and p_i
\* is the zone's proportion, an equal share when none is supplied.
C15_ZoneHeightsFromInternalHeight ==
  Ended /\ ~HasKey(args.variableOverrides, "internal_height") =>
    LET internalHeight == ContextValue(context, "internal_height")
        zones == args.pattern.zones
        columns == args.pattern.columns
    IN  IF Len(columns) > 0
        THEN \A c \in 1..Len(columns) : \A z \in 1..Len(columns[c].zones) :
               LET zoneHeight ==
                     MathRound(Mul(internalHeight, Rat(1, Len(columns[c].zones))))
               IN  /\ Has("col_" \o NatToString(c - 1) \o "_zone_" \o NatToString(z - 1)
                            \o "_height", zoneHeight)
                   /\ Has(IdToName(columns[c].zones[z].id) \o "_height", zoneHeight)
        ELSE \A i \in 1..Len(zones) :
               LET zoneHeight ==
                     MathRound(Mul(internalHeight, ZoneProportionOf(args, i, Len(zones))))
               IN  /\ Has("zone_" \o NatToString(i - 1) \o "_height", zoneHeight)
                   /\ Has(IdToName(zones[i].id) \o "_height", zoneHeight)

\* C19: the shared context is the same after the rules as before them, with
\* no part_thickness in it but one the caller's overrides put there, and the part_thickness the formulas of a rule
\* see is the thickness of that rule's own material, whatever rules came
\* before it.
C19_SharedContextUntouched ==
  Ended =>
    /\ context = PrepareContext(args)
    /\ (HasKey(context, "part_thickness") => HasKey(args.variableOverrides, "part_thickness"))
    /\ \A i \in 1..Len(log) :
         /\ log[i].partThickness =
              getMaterialThickness(log[i].rule.materialId, args.materials,
                                   ContextValue(context, "material_thickness"))
         /\ (log[i].rule.lengthExpression = "part_thickness / 100" /\ ~log[i].threw =>
               log[i].length = Div(log[i].partThickness, Num(100)))

\* C19 witness: a call returned that processed a rule of material m1
\* (thickness 19) and then the rule of material m2 (thickness 25) whose
\* length is part_thickness / 100: the second rule saw 25.
C19_Witness ==
  /\ Returned
  /\ Len(log) = 2
  /\ log[1].rule.materialId = "m1" /\ log[1].partThickness = Num(19)
  /\ log[2].rule.materialId = "m2" /\ log[2].partThickness = Num(25)
  /\ log[2].rule.lengthExpression = "part_thickness / 100"
  /\ log[2].length = Rat(1, 4)
  /\ ~HasKey(context, "part_thickness")

\* C20: a call leaves the pattern, the dimensions, the global settings, the
\* ruleSet, the materials, the variableOverrides and the proportions as
\* they were before it.
C20_ArgumentsUnchanged == [][args' = args]_vars

\* C20 witness: a call returned for a pattern with variables and with
\* variableOverrides, after the assignments of the pattern's variables and
\* of the zone heights to the context.
C20_Witness ==
  /\ Returned
  /\ args.pattern.variables # <<>>
  /\ args.variableOverrides # <<>>
  /\ Len(args.pattern.partRules) > 0
  /\ HasKey(context, "toe_kick")
  /\ HasKey(context, "zone_0_height")
  /\ HasKey(context, "zone_1_height")

\* C21 has no formula: buildExpressionContext reads its parameters only,
\* and the operator that models it is a function of them.

\* The places of the library materials that have the id.
PlacesOf(id, materials) == {j \in 1..Len(materials) : materials[j].id = id}

\* C22: getMaterialThickness gives the fallback when the id is absent or no
\* library material has it, and otherwise the thickness of the first
\* library material with the id.
C22_MaterialThicknessLookup ==
  Ended =>
    \A i \in 1..Len(log) :
      LET id == log[i].rule.materialId
          fallback == ContextValue(PrepareContext(args), "material_thickness")
          places == PlacesOf(id, args.materials)
      IN  /\ (id = "" \/ places = {}) => log[i].partThickness = fallback
          /\ (id # "" /\ places # {}) =>
               \E j \in places :
                 /\ \A k \in places : j <= k
                 /\ log[i].partThickness = args.materials[j].thickness

\* C22 witness: a call returned that looked up m1 in a library holding m1
\* twice, with thicknesses 19 and 30, and got 19; and looked up no id and
\* got the fallback 18.
C22_Witness ==
  /\ Returned
  /\ Len(log) = 2
  /\ Len(args.materials) = 3
  /\ args.materials[1] = Material("m1", Num(19))
  /\ args.materials[3] = Material("m1", Num(30))
  /\ log[1].rule.materialId = "m1" /\ log[1].partThickness = Num(19)
  /\ log[2].rule.materialId = "" /\ log[2].partThickness = Num(18)

\* The call of the documentation: the single rule Lateral, 720 x 600 x 560,
\* materialThickness 18, backPanelThickness 6, no ruleSet, overrides or
\* materials.
LateralCall ==
  /\ args # NoArgs
  /\ Len(args.pattern.partRules) = 1
  /\ args.pattern.partRules[1].partName = "Lateral"
  /\ args.pattern.partRules[1].lengthExpression = "total_height - 2*material_thickness"
  /\ args.pattern.partRules[1].widthExpression = "total_depth - back_thickness"
  /\ args.pattern.partRules[1].quantityExpression = "2"
  /\ args.dimensions = [height |-> Num(720), width |-> Num(600), depth |-> Num(560)]
  /\ args.globalSettings.materialThickness = Num(18)
  /\ args.globalSettings.backPanelThickness = Num(6)
  /\ args.pattern.materials = NoPatternMaterials
  /\ args.ruleSet = NoRuleSet
  /\ args.variableOverrides = <<>>
  /\ args.materials = <<>>

\* C24: the call of the documentation returns exactly one part, Lateral,
\* of length 684, width 554 and quantity 2.
C24_LateralEndToEnd ==
  Ended /\ LateralCall =>
    /\ pc = "returned"
    /\ Len(parts) = 1
    /\ parts[1].partName = "Lateral"
    /\ parts[1].length = Num(684)
    /\ parts[1].width = Num(554)
    /\ parts[1].quantity = Num(2)

\* C24 witness: the call of the documentation returned a part of length 684.
C24_Witness ==
  /\ Returned
  /\ LateralCall
  /\ Len(parts) = 1
  /\ parts[1].length = Num(684)

\* C26: every name of variableOverrides has the override's value in the
\* context the formulas of every rule are evaluated in, whatever the name.
C26_OverridesTakePrecedence ==
  Ended =>
    \A i \in 1..Len(log) : \A j \in 1..Len(args.variableOverrides) :
      LET seen == RuleContext(context, log[i].partThickness)
          name == args.variableOverrides[j].k
      IN  /\ HasKey(seen, name)
          /\ ContextValue(seen, name) = args.variableOverrides[j].v

\* C27: an emitted part that carries a materialId carries the id of a
\* library material whose thickness was the rule's part_thickness, and a
\* part whose thickness came from the fallback carries no materialId.
C27_MaterialIdMatchesThickness ==
  Returned =>
    \A i \in 1..Len(log) :
      ~log[i].skip =>
        LET id == log[i].part.materialId
            places == PlacesOf(id, args.materials)
        IN  /\ id # "" =>
                 \E j \in places : log[i].partThickness = args.materials[j].thickness
            /\ (log[i].rule.materialId = "" \/ PlacesOf(log[i].rule.materialId, args.materials) = {})
                 => id = ""

\* C28: with a ruleSet, drawer_front_gap, door_gap, shelf_inset and
\* drawer_slide_offset are the ruleSet's offsets, 0 included; with no
\* ruleSet they are 3, 3, 20 and 12.5.
C28_RuleSetOffsetsUsedAsGiven ==
  Built =>
    LET offsets == args.ruleSet.offsets
    IN  IF args.ruleSet # NoRuleSet
        THEN /\ BuiltIn("drawer_front_gap", offsets.drawerFrontGap)
             /\ BuiltIn("door_gap", offsets.doorGap)
             /\ BuiltIn("shelf_inset", offsets.shelfInset)
             /\ BuiltIn("drawer_slide_offset", offsets.drawerSlideOffset)
        ELSE /\ BuiltIn("drawer_front_gap", Num(3))
             /\ BuiltIn("door_gap", Num(3))
             /\ BuiltIn("shelf_inset", Num(20))
             /\ BuiltIn("drawer_slide_offset", Rat(25, 2))

\* C29: with an inset back-panel method and none of the names shadowed by
\* the pattern, back_width and back_height are total_width and total_height
\* less 2 x material_thickness and 2 x back_groove of the same mapping.
C29_BackPanelConsistentWithGroove ==
  Built /\ BackPanelMethodOf(args) \in {"inset-groove", "inset-rebate"}
        /\ (\A name \in {"back_width", "back_height", "total_width", "total_height",
                         "material_thickness", "back_groove"} : ~Shadowed(name)) =>
    LET less == Add(Twice(ContextValue(context, "material_thickness")),
                    Twice(ContextValue(context, "back_groove")))
    IN  /\ ContextValue(context, "back_width")
             = Sub(ContextValue(context, "total_width"), less)
        /\ ContextValue(context, "back_height")
             = Sub(ContextValue(context, "total_height"), less)

\* Two parts are the same for consolidation: same name, length, width and
\* material, by name and by the library material referred to.
SamePart(p, q) ==
  /\ p.partName = q.partName
  /\ p.length = q.length
  /\ p.width = q.width
  /\ p.material = q.material
  /\ p.materialId = q.materialId

\* The places of list, in order, whose part is the same as no earlier one.
RECURSIVE FirstOccurrences(_, _)
FirstOccurrences(list, i) ==
  IF i > Len(list) THEN <<>>
  ELSE IF \E j \in 1..(i - 1) : SamePart(list[j], list[i])
    THEN FirstOccurrences(list, i + 1)
  ELSE <<i>> \o FirstOccurrences(list, i + 1)

\* C25: consolidateParts returns one entry per group of same parts, in
\* order of first occurrence, each the first part of its group with the
\* sum of the group's quantities; the input list is as it was.
C25_ConsolidationIsGroupBy ==
  pc = "consolidated" =>
    LET firsts == FirstOccurrences(args.parts, 1)
        GroupQuantity(i) ==
          SumOf([j \in 1..Len(args.parts) |->
                   IF SamePart(args.parts[j], args.parts[i])
                   THEN args.parts[j].quantity ELSE Num(0)])
    IN  /\ parts = args.parts
        /\ Len(result) = Len(firsts)
        /\ \A k \in 1..Len(firsts) :
             k <= Len(result) =>
               /\ SamePart(result[k], args.parts[firsts[k]])
               /\ result[k].quantity = GroupQuantity(firsts[k])

\* The project holds a cabinet with the id.
HoldsCabinet(id) ==
  \E i \in 1..Len(currentProject.cabinets) : currentProject.cabinets[i].id = id

\* C30: the selected cabinet id is null or the id of a cabinet of the
\* current project, and the id addCabinet returned is the id of a cabinet
\* of the current project.
C30_SelectionRefersToCabinet ==
  /\ ui.selectedCabinetId # 0 => HoldsCabinet(ui.selectedCabinetId)
  /\ pc = "addCabinet" => HoldsCabinet(result)

\* The categories of joints that hold the pieces without entering them,
\* and those that receive the inserted piece.
SurfaceCategories == {"butt", "dowel", "cam-lock", "pocket-screw", "miter"}
HousedCategories == {"dado", "rabbet", "tongue-groove"}

\* depth - tolerance of the joints of the housed categories among the first
\* i edges, added up.
RECURSIVE HousedReach(_, _)
HousedReach(edges, i) ==
  IF i = 0 THEN Num(0)
  ELSE LET joint == getJointById(edges[i])
       IN  Add(HousedReach(edges, i - 1),
               IF joint.category \in HousedCategories
               THEN Sub(joint.depth, joint.tolerance) ELSE Num(0))

====
